---- MODULE Spec2Model ----
(***************************************************************************)
(* A model of the model-comparison workflow (clim_model_comparison.py,     *)
(* clim_model_utils.py), of the modelling page that drives it              *)
(* (clim_app.py, page_modeling), of the time-series feature engineering    *)
(* (clim_preprocessing.py) and of the single-model run (clim_modeling.py). *)
(*                                                                         *)
(* The specifications of the module:                                       *)
(*   Spec        one call of compare_models after the other, stage by      *)
(*               stage;                                                    *)
(*   SpecSession a page_modeling session: one action per button handler;   *)
(*   SpecDetect  detect_task_type applied to bounded targets;              *)
(*   SpecPrep    build_preprocessor applied to bounded feature tables;     *)
(*   SpecFE      the add_*_features operations applied to bounded tables;  *)
(*   SpecModeling run_climate_modeling applied to bounded datasets.        *)
(* SpecRun is Spec with the fairness of a sequential run.                  *)
(***************************************************************************)
EXTENDS Integers, Sequences, FiniteSets, TLC

VARIABLES
    \* ---- Spec: one compare_models call
    pc,          \* the stage compare_models is at
    args,        \* the arguments of the call
    task,        \* the local `task` (the hint, then the resolved task)
    use_cv,      \* the local `use_cv` (may be forced off, l.279-281)
    shown,       \* what was written with st.error / st.warning
    split,       \* how the train/test split was obtained
    preprocessor,\* the ColumnTransformer built from X_train
    available_models, \* the resolved candidates, in iteration order
    results,     \* the result list
    raised,      \* the exception that left compare_models, or None
    \* ---- SpecSession: a page_modeling session
    session,     \* st.session_state
    page,        \* what the last handler showed and trained
    \* ---- SpecDetect
    target,      \* the target series handed to detect_task_type
    detected,    \* what the call returned or raised
    \* ---- SpecPrep
    features,    \* the feature table handed to build_preprocessor
    prep_flags,  \* do_scale, handle_high_cardinality
    plan,        \* what the call returned or raised
    \* ---- SpecFE
    table,       \* the input table of a feature-engineering call
    fe_call,     \* the operation and its arguments
    fe_out,      \* what the call returned or raised
    \* ---- SpecModeling
    climate_df,  \* the dataset handed to run_climate_modeling
    climate_run  \* the arguments of the call and what it returned or raised

runVars  == <<pc, args, task, use_cv, shown, split, preprocessor,
              available_models, results, raised>>
sesVars  == <<session, page>>
detVars  == <<target, detected>>
prepVars == <<features, prep_flags, plan>>
feVars   == <<table, fe_call, fe_out>>
modVars  == <<climate_df, climate_run>>
vars     == <<runVars, sesVars, detVars, prepVars, feVars, modVars>>

(***************************************************************************)
(* Python values.  A float is Num(v) (v an integer of the model's scale)   *)
(* or NaN; None is None.  A call returns Ok(v) or leaves with Raise(..).   *)
(***************************************************************************)
None == [k |-> "none"]

NaN == [k |-> "nan"]

Num(v) == [k |-> "num", v |-> v]

\* a Python str, where None is possible too
Str(v) == [k |-> "str", v |-> v]

\* a Python list
List(l) == [k |-> "list", v |-> l]

Ok(v) == [k |-> "ok", v |-> v]

Raise(exc, msg) == [k |-> "raise", exc |-> exc, msg |-> msg]

\* a > b on floats: false as soon as one side is NaN
FloatGt(a, b) == a.k = "num" /\ b.k = "num" /\ a.v > b.v

\* the elements of a sequence
Range(s) == {s[i] : i \in DOMAIN s}

\* the subsequence of s whose elements belong to keep, order kept
RECURSIVE FilterSeq(_, _)
FilterSeq(s, keep) ==
    IF s = <<>> THEN <<>>
    ELSE (IF Head(s) \in keep THEN <<Head(s)>> ELSE <<>>) \o FilterSeq(Tail(s), keep)

(***************************************************************************)
(* Tables.  A column is described by what the code reads of it: its name,  *)
(* its dtype, its number of distinct non-missing values and whether it     *)
(* holds a missing value.  A target series is described by its dtype, its  *)
(* length, its number of missing values and of distinct non-missing ones.  *)
(***************************************************************************)
Column(name, dtype, nunique, has_nan) ==
    [name |-> name, dtype |-> dtype, nunique |-> nunique, has_nan |-> has_nan]

Series(dtype, n_total, n_missing, n_unique) ==
    [dtype |-> dtype, n_total |-> n_total, n_missing |-> n_missing, n_unique |-> n_unique]

(***************************************************************************)
(* clim_model_utils.detect_task_type                                       *)
(***************************************************************************)
MaxUniqueForClassification == 20

\* n_unique / n_total < 0.1, on the integers: 10 * n_unique < n_total
\* (the float quotient and the literal 0.1 compare the same way for every
\* length far below 2^53)
RatioBelowTenth(n_unique, n_total) == 10 * n_unique < n_total

DetectNoMissingCheck(y) ==
    IF y.n_total = 0
    THEN Raise("ValueError", "La serie cible est vide")
    ELSE IF y.dtype \in {"object", "category"}
    THEN Ok("classification")
    ELSE IF y.n_unique <= MaxUniqueForClassification
            /\ RatioBelowTenth(y.n_unique, y.n_total)
    THEN Ok("classification")
    ELSE Ok("regression")

DetectRatioOnly(y) ==
    IF y.n_total = 0
    THEN Raise("ValueError", "La serie cible est vide")
    ELSE IF y.n_missing = y.n_total
    THEN Raise("ValueError", "La serie cible ne contient que des valeurs manquantes")
    ELSE IF y.dtype \in {"object", "category"}
    THEN Ok("classification")
    ELSE IF RatioBelowTenth(y.n_unique, y.n_total)
    THEN Ok("classification")
    ELSE Ok("regression")

detect_task_type(y) ==
    IF y.n_total = 0
    THEN Raise("ValueError", "La serie cible est vide")
    ELSE IF y.n_missing = y.n_total
    THEN Raise("ValueError", "La serie cible ne contient que des valeurs manquantes")
    ELSE IF y.dtype \in {"object", "category"}
    THEN Ok("classification")
    ELSE IF y.n_unique <= MaxUniqueForClassification
            /\ RatioBelowTenth(y.n_unique, y.n_total)
    THEN Ok("classification")
    ELSE Ok("regression")

(***************************************************************************)
(* clim_model_utils.build_preprocessor.  X is [n_rows, cols]; the result   *)
(* is the ColumnTransformer: its transformers (name, steps, columns) and   *)
(* remainder = "drop", which discards every column no transformer names.   *)
(***************************************************************************)
HighCardinalityLimit == 100

OneHotMaxCategories == 50

Frame(n_rows, cols) == [n_rows |-> n_rows, cols |-> cols]

\* DataFrame.select_dtypes(include=...).columns.tolist()
RECURSIVE select_dtypes(_, _)
select_dtypes(cols, include) ==
    IF cols = <<>> THEN <<>>
    ELSE (IF Head(cols).dtype \in include THEN <<Head(cols).name>> ELSE <<>>)
         \o select_dtypes(Tail(cols), include)

\* [col for col in categorical_features if X[col].nunique() <= 100]
RECURSIVE low_card_features(_)
low_card_features(cols) ==
    IF cols = <<>> THEN <<>>
    ELSE (IF Head(cols).dtype \in {"object", "category"}
             /\ Head(cols).nunique <= HighCardinalityLimit
          THEN <<Head(cols).name>> ELSE <<>>)
         \o low_card_features(Tail(cols))

NumericTransformer(do_scale, numeric_features) ==
    [name |-> "num",
     steps |-> IF do_scale THEN <<"SimpleImputer(median)", "StandardScaler">>
                           ELSE <<"SimpleImputer(median)">>,
     max_categories |-> None,
     columns |-> numeric_features]

CategoricalTransformer(max_categories, columns) ==
    [name |-> "cat",
     steps |-> <<"SimpleImputer(constant,missing)", "OneHotEncoder(ignore)">>,
     max_categories |-> max_categories,
     columns |-> columns]

BuildKeepsHighCardinality(X, do_scale, handle_high_cardinality) ==
    IF X.n_rows = 0 \/ X.cols = <<>>
    THEN Raise("ValueError", "Le DataFrame X est vide")
    ELSE
    LET numeric_features == select_dtypes(X.cols, {"int64", "float64"})
        categorical_features == select_dtypes(X.cols, {"object", "category"})
        num == IF numeric_features # <<>>
               THEN <<NumericTransformer(do_scale, numeric_features)>> ELSE <<>>
        cat == IF categorical_features = <<>> THEN <<>>
               ELSE <<CategoricalTransformer(None, categorical_features)>>
    IN  Ok([transformers |-> num \o cat, remainder |-> "drop"])

build_preprocessor(X, do_scale, handle_high_cardinality) ==
    IF X.n_rows = 0 \/ X.cols = <<>>
    THEN Raise("ValueError", "Le DataFrame X est vide")
    ELSE
    LET numeric_features == select_dtypes(X.cols, {"int64", "float64"})
        categorical_features == select_dtypes(X.cols, {"object", "category"})
        num == IF numeric_features # <<>>
               THEN <<NumericTransformer(do_scale, numeric_features)>> ELSE <<>>
        cat == IF categorical_features = <<>> THEN <<>>
               ELSE IF handle_high_cardinality
               THEN (IF low_card_features(X.cols) # <<>>
                     THEN <<CategoricalTransformer(Num(OneHotMaxCategories),
                                                   low_card_features(X.cols))>>
                     ELSE <<>>)
               ELSE <<CategoricalTransformer(None, categorical_features)>>
    IN  Ok([transformers |-> num \o cat, remainder |-> "drop"])

\* the columns the transformer called `name` processes (none when absent)
GroupColumns(ct, name) ==
    UNION {Range(t.columns) : t \in {u \in Range(ct.transformers) : u.name = name}}

(***************************************************************************)
(* clim_model_comparison.validate_data_for_modeling.  X is [n_rows, cols], *)
(* y a Series, size_mb the memory X and y take, in whole MB.               *)
(***************************************************************************)
LargeDatasetWarnMB == 500

ErrXEmpty == "DataFrame X vide (0 lignes)"

ErrNoFeatures == "DataFrame X sans features"

ErrYEmpty == "Variable cible y vide"

ErrMismatch == "Incompatibilite : X lignes, y valeurs"

WarnNaN == "colonne(s) avec NaN"

WarnHighCard == "colonne(s) a haute cardinalite (> 100 valeurs)"

WarnLarge == "Dataset volumineux"

ValidateFirstErrorOnly(X, y, size_mb) ==
    LET errors ==
            IF X.n_rows = 0 THEN <<ErrXEmpty>>
            ELSE IF X.cols = <<>> THEN <<ErrNoFeatures>>
            ELSE IF y.n_total = 0 THEN <<ErrYEmpty>>
            ELSE IF X.n_rows # y.n_total THEN <<ErrMismatch>>
            ELSE <<>>
    IN  [is_valid |-> errors = <<>>, errors |-> errors, warnings |-> <<>>]

validate_data_for_modeling(X, y, size_mb) ==
    LET errors ==
               (IF X.n_rows = 0 THEN <<ErrXEmpty>> ELSE <<>>)
            \o (IF X.cols = <<>> THEN <<ErrNoFeatures>> ELSE <<>>)
            \o (IF y.n_total = 0 THEN <<ErrYEmpty>> ELSE <<>>)
            \o (IF X.n_rows # y.n_total THEN <<ErrMismatch>> ELSE <<>>)
        nan_cols == {c \in Range(X.cols) : c.has_nan}
        high_card == {c \in Range(X.cols) :
                         /\ c.dtype \in {"object", "category"}
                         /\ c.nunique > HighCardinalityLimit}
        warnings ==
               (IF nan_cols # {} THEN <<WarnNaN>> ELSE <<>>)
            \o (IF high_card # {} THEN <<WarnHighCard>> ELSE <<>>)
            \o (IF size_mb > LargeDatasetWarnMB THEN <<WarnLarge>> ELSE <<>>)
    IN  [is_valid |-> errors = <<>>, errors |-> errors, warnings |-> warnings]

(***************************************************************************)
(* clim_model_comparison.get_available_models.  An estimator is the record *)
(* of its class and of the attributes the code reads or sets; an estimator *)
(* class without a class_weight parameter has no such field (hasattr).     *)
(* n_estimators = 100, max_depth = None, min_samples_split = 2 are the     *)
(* library's defaults of the forests, max_depth = 3 that of the boosting.  *)
(***************************************************************************)
RandomState == 42

ForestClassifier(cls, n_estimators, max_depth) ==
    [cls |-> cls, n_estimators |-> n_estimators, max_depth |-> max_depth,
     min_samples_split |-> 2, random_state |-> RandomState, class_weight |-> None]

ForestRegressor(cls, n_estimators, max_depth) ==
    [cls |-> cls, n_estimators |-> n_estimators, max_depth |-> max_depth,
     min_samples_split |-> 2, random_state |-> RandomState]

GradientBoosting(cls, n_estimators, max_depth) ==
    [cls |-> cls, n_estimators |-> n_estimators, max_depth |-> max_depth,
     min_samples_split |-> 2, random_state |-> RandomState]

LogisticRegression(max_iter) ==
    [cls |-> "LogisticRegression", max_iter |-> max_iter,
     random_state |-> RandomState, class_weight |-> None]

DecisionTreeClassifier(max_depth) ==
    [cls |-> "DecisionTreeClassifier", max_depth |-> max_depth,
     min_samples_split |-> 2, random_state |-> RandomState, class_weight |-> None]

DecisionTreeRegressor(max_depth) ==
    [cls |-> "DecisionTreeRegressor", max_depth |-> max_depth,
     min_samples_split |-> 2, random_state |-> RandomState]

Seeded(cls) == [cls |-> cls, random_state |-> RandomState]

Unseeded(cls) == [cls |-> cls]

Entry(name, model) == [name |-> name, model |-> model]

get_available_models(t, fast_mode) ==
    IF t = "classification" THEN
        IF fast_mode THEN
            << Entry("Random Forest", ForestClassifier("RandomForestClassifier", 50, Num(10))),
               Entry("Gradient Boosting", GradientBoosting("GradientBoostingClassifier", 50, Num(3))),
               Entry("Logistic Regression", LogisticRegression(500)),
               Entry("Decision Tree", DecisionTreeClassifier(Num(10))),
               Entry("Extra Trees", ForestClassifier("ExtraTreesClassifier", 50, Num(10))) >>
        ELSE
            << Entry("Random Forest", ForestClassifier("RandomForestClassifier", 100, None)),
               Entry("Gradient Boosting", GradientBoosting("GradientBoostingClassifier", 100, Num(3))),
               Entry("Logistic Regression", LogisticRegression(1000)),
               Entry("Decision Tree", DecisionTreeClassifier(None)),
               Entry("Extra Trees", ForestClassifier("ExtraTreesClassifier", 100, None)),
               Entry("AdaBoost", Seeded("AdaBoostClassifier")),
               Entry("K-Nearest Neighbors", Unseeded("KNeighborsClassifier")),
               Entry("Naive Bayes", Unseeded("GaussianNB")) >>
    ELSE
        IF fast_mode THEN
            << Entry("Random Forest", ForestRegressor("RandomForestRegressor", 50, Num(10))),
               Entry("Gradient Boosting", GradientBoosting("GradientBoostingRegressor", 50, Num(3))),
               Entry("Linear Regression", Unseeded("LinearRegression")),
               Entry("Ridge", Seeded("Ridge")),
               Entry("Decision Tree", DecisionTreeRegressor(Num(10))),
               Entry("Extra Trees", ForestRegressor("ExtraTreesRegressor", 50, Num(10))) >>
        ELSE
            << Entry("Random Forest", ForestRegressor("RandomForestRegressor", 100, None)),
               Entry("Gradient Boosting", GradientBoosting("GradientBoostingRegressor", 100, Num(3))),
               Entry("Linear Regression", Unseeded("LinearRegression")),
               Entry("Ridge", Seeded("Ridge")),
               Entry("Lasso", Seeded("Lasso")),
               Entry("Decision Tree", DecisionTreeRegressor(None)),
               Entry("Extra Trees", ForestRegressor("ExtraTreesRegressor", 100, None)),
               Entry("AdaBoost", Seeded("AdaBoostRegressor")),
               Entry("K-Nearest Neighbors", Unseeded("KNeighborsRegressor")) >>

(***************************************************************************)
(* clim_model_comparison.train_and_evaluate_model.  What the library does  *)
(* with the candidate is the environment's choice `env`:                   *)
(*   env.fit   "ok", or "raise" when Pipeline(), fit, predict or a metric  *)
(*             raises an Exception,                                        *)
(*   env.msg   str(e) of that exception,                                   *)
(*   env.test, env.train, env.second   the metric values,                  *)
(*   env.cv    "ok" or "raise": what cross_val_score does when called.     *)
(* training_time and the retained X_test, y_test, y_pred, y_proba are left *)
(* out: no decision of the code reads them.                                *)
(***************************************************************************)
Pipeline(prep, model) == [preprocessor |-> prep, model |-> model]

FailedResult(model_name, env) ==
    [model_name |-> model_name, pipeline |-> None, test_score |-> None,
     train_score |-> None, f1_score |-> None, rmse |-> None, cv_scores |-> None,
     metric_name |-> None, success |-> FALSE, error |-> env.msg]

\* both secondary metrics computed whatever the task
SuccessResultBothMetrics(model_name, model, prep, t, cv, env) ==
    [model_name |-> model_name,
     pipeline |-> Pipeline(prep, model),
     test_score |-> env.test,
     train_score |-> env.train,
     f1_score |-> env.second,
     rmse |-> env.second,
     cv_scores |-> IF cv /\ env.cv = "ok" THEN env.test ELSE None,
     metric_name |-> IF t = "classification" THEN Str("Accuracy") ELSE Str("R2"),
     success |-> TRUE]

SuccessResult(model_name, model, prep, t, cv, env) ==
    [model_name |-> model_name,
     pipeline |-> Pipeline(prep, model),
     test_score |-> env.test,
     train_score |-> env.train,
     f1_score |-> IF t = "classification" THEN env.second ELSE None,
     rmse |-> IF t = "classification" THEN None ELSE env.second,
     cv_scores |-> IF cv /\ env.cv = "ok" THEN env.test ELSE None,
     metric_name |-> IF t = "classification" THEN Str("Accuracy")
                                             ELSE Str("R2"),
     success |-> TRUE]

TrainWithoutTry(model_name, model, prep, t, cv, env) ==
    IF env.fit = "raise"
    THEN Raise("Exception", env.msg)
    ELSE Ok(SuccessResult(model_name, model, prep, t, cv, env))

\* the cross-validation step outside its own try: its failure fails the
\* candidate
TrainCvFailureFails(model_name, model, prep, t, cv, env) ==
    IF env.fit = "raise" \/ (cv /\ env.cv = "raise")
    THEN Ok(FailedResult(model_name, env))
    ELSE Ok(SuccessResult(model_name, model, prep, t, cv, env))

train_and_evaluate_model(model_name, model, prep, t, cv, env) ==
    IF env.fit = "raise"
    THEN Ok(FailedResult(model_name, env))
    ELSE Ok(SuccessResult(model_name, model, prep, t, cv, env))

(***************************************************************************)
(* The stages of clim_model_comparison.compare_models, as functions.       *)
(***************************************************************************)
LargeDatasetMB == 5

LargeDatasetRows == 10000

\* l.245-246: X = df.drop(columns=[target_col]); y = df[target_col]
XOf(df) == Frame(df.n_rows, df.cols)

YOf(df) == df.y

\* the size of the dataset ignored: cross-validation whenever requested
CvAsRequested(df, cv) == cv

\* l.270-281: cross-validation is switched off for a large dataset
EffectiveUseCv(df, cv) ==
    IF df.size_mb > LargeDatasetMB \/ df.n_rows > LargeDatasetRows THEN FALSE ELSE cv

\* sklearn's train_test_split(X, y, test_size=0.2, stratify=...): n_test is
\* ceil(0.2 n), n_train the rest; ValueError when the train set would be
\* empty and, when stratifying, when a class has a single member or either
\* part has fewer rows than there are classes
train_test_split(y, min_class, stratify) ==
    LET n_test == (y.n_total + 4) \div 5
        n_train == y.n_total - n_test
    IN  IF n_train = 0
        THEN Raise("ValueError", "the resulting train set will be empty")
        ELSE IF stratify /\ min_class < 2
        THEN Raise("ValueError", "The least populated class in y has only 1 member")
        ELSE IF stratify /\ (n_test < y.n_unique \/ n_train < y.n_unique)
        THEN Raise("ValueError", "should be greater or equal to the number of classes")
        ELSE Ok([n_train |-> n_train, stratified |-> stratify])

\* the rows of the training part
TrainRows(n_rows) == n_rows - ((n_rows + 4) \div 5)

\* the size of the least populated class of the target
MinClass(df) == IF df.rare_class THEN 1 ELSE 2

\* X_train: the training rows of X; seen[i] is the number of distinct values
\* of column i among them
X_trainOf(df, seen) ==
    Frame(TrainRows(df.n_rows),
          [i \in DOMAIN df.cols |-> [df.cols[i] EXCEPT !.nunique = seen[i]]])

\* what the training rows may show of the columns: the split may leave one
\* value of a text column to the test rows alone
TrainViews(df) ==
    {seen \in [DOMAIN df.cols ->
                  {df.cols[i].nunique - d : i \in DOMAIN df.cols, d \in {0, 1}}] :
        \A i \in DOMAIN df.cols :
            \/ seen[i] = df.cols[i].nunique
            \/ /\ df.cols[i].dtype \in {"object", "category"}
               /\ df.cols[i].nunique > 1
               /\ seen[i] = df.cols[i].nunique - 1}

\* every distinct value of every column is among the training rows
FullView(df) == [i \in DOMAIN df.cols |-> df.cols[i].nunique]

\* the plan built on the whole table
WholeTable(df, X_train) == XOf(df)

\* l.299: build_preprocessor is handed X_train
PlanInput(df, X_train) == X_train

\* l.283-296: the split.  stratify_raises: train_test_split(stratify=y) raises
\* on this target.
SplitAlwaysStratified(t, handle_imbalance, stratify_raises) ==
    IF t = "classification"
    THEN [attempted_stratify |-> TRUE, used_stratify |-> ~stratify_raises,
          random_state |-> RandomState]
    ELSE [attempted_stratify |-> FALSE, used_stratify |-> FALSE,
          random_state |-> RandomState]

SplitData(t, handle_imbalance, stratify_raises) ==
    IF t = "classification" /\ ~handle_imbalance
    THEN [attempted_stratify |-> TRUE, used_stratify |-> ~stratify_raises,
          random_state |-> RandomState]
    ELSE [attempted_stratify |-> FALSE, used_stratify |-> FALSE,
          random_state |-> RandomState]

\* l.283-296 as a whole: how the split was made and the training rows it
\* gave, or the exception of the second, unguarded train_test_split
Divided(how, X_train) ==
    [attempted_stratify |-> how.attempted_stratify, used_stratify |-> how.used_stratify,
     random_state |-> how.random_state, X_train |-> X_train]

\* a fit that keeps the state of the fit before it inside the new one
FitKeepsHistory(prep, how) ==
    [transformers |-> prep.transformers, remainder |-> prep.remainder,
     fitted_on |-> IF "fitted_on" \in DOMAIN prep
                   THEN [refit_of |-> prep.fitted_on] ELSE how]

\* l.120, pipe.fit(X_train, y_train): sklearn fits the steps of a pipeline in
\* place, so the one ColumnTransformer handed to every candidate is fitted
\* again at each; what it learns is determined by the training rows, which
\* the split (how) fixes for the run
Fit(prep, how) ==
    [transformers |-> prep.transformers, remainder |-> prep.remainder,
     fitted_on |-> how]

\* the results already in the list hold the same ColumnTransformer object in
\* their pipelines: they see the state it is in now
Rebind(rs, prep) ==
    [i \in DOMAIN rs |->
        IF rs[i].success
        THEN [rs[i] EXCEPT !.pipeline = Pipeline(prep, rs[i].pipeline.model)]
        ELSE rs[i]]

\* the candidates taken in the order of the selection
RECURSIVE FilterInSelectionOrder(_, _)
FilterInSelectionOrder(models, selected) ==
    IF selected = <<>> THEN <<>>
    ELSE SelectSeq(models, LAMBDA m : m.name = Head(selected))
         \o FilterInSelectionOrder(models, Tail(selected))

\* l.305-306: {k: v for k, v in available_models.items() if k in selected_models}
RECURSIVE FilterSelected(_, _)
FilterSelected(models, selected) ==
    IF models = <<>> THEN <<>>
    ELSE (IF Head(models).name \in Range(selected) THEN <<Head(models)>> ELSE <<>>)
         \o FilterSelected(Tail(models), selected)

\* the imbalance option ignored
NotBalanced(models) == models

\* l.308-312: model.class_weight = "balanced" where the estimator has the attribute
Balanced(models) ==
    [i \in DOMAIN models |->
        IF "class_weight" \in DOMAIN models[i].model
        THEN [models[i] EXCEPT !.model.class_weight = Str("balanced")]
        ELSE models[i]]

\* a selection that matches nothing taken for no selection
WholeCatalogWhenNoMatch(t, fast_mode, selected, handle_imbalance) ==
    LET catalog == get_available_models(t, fast_mode)
        matched == IF selected # None /\ selected # List(<<>>)
                   THEN FilterSelected(catalog, selected.v) ELSE catalog
        chosen == IF matched = <<>> THEN catalog ELSE matched
    IN  IF handle_imbalance /\ t = "classification" THEN Balanced(chosen) ELSE chosen

\* l.301-312: `if selected_models:` is false for None and for the empty list
ResolveCandidates(t, fast_mode, selected, handle_imbalance) ==
    LET catalog == get_available_models(t, fast_mode)
        chosen == IF selected # None /\ selected # List(<<>>)
                  THEN FilterSelected(catalog, selected.v) ELSE catalog
    IN  IF handle_imbalance /\ t = "classification" THEN Balanced(chosen) ELSE chosen

(***************************************************************************)
(* The inputs explored.                                                    *)
(***************************************************************************)
\* the largest resolved candidate set a call is explored with
MaxCandidates == 5

\* the longest selected_models list
MaxSelected == 2

NumericCols == <<Column("temperature", "float64", 30, FALSE)>>

MixedCols == <<Column("temperature", "float64", 30, TRUE),
               Column("station", "object", 101, FALSE)>>

\* (rows, MB) of the table
Shapes == { [n_rows |-> 0, size_mb |-> 0], [n_rows |-> 1, size_mb |-> 0],
            [n_rows |-> 30, size_mb |-> 5],
            [n_rows |-> 30, size_mb |-> 501], [n_rows |-> 10001, size_mb |-> 5] }

\* feature columns, target (dtype, distinct values, all missing or not) and
\* whether a stratified split of the target raises
Contents ==
    { [cols |-> <<>>,        dtype |-> "int64",   n_unique |-> 2,  all_missing |-> FALSE, rare_class |-> FALSE],
      [cols |-> NumericCols, dtype |-> "int64",   n_unique |-> 2,  all_missing |-> FALSE, rare_class |-> FALSE],
      [cols |-> NumericCols, dtype |-> "object",  n_unique |-> 3,  all_missing |-> FALSE, rare_class |-> TRUE],
      [cols |-> MixedCols,   dtype |-> "float64", n_unique |-> 25, all_missing |-> FALSE, rare_class |-> TRUE],
      [cols |-> NumericCols, dtype |-> "float64", n_unique |-> 0,  all_missing |-> TRUE,  rare_class |-> FALSE] }

Dataset(shape, c) ==
    [n_rows |-> shape.n_rows, size_mb |-> shape.size_mb, cols |-> c.cols,
     y |-> Series(c.dtype, shape.n_rows,
                  IF c.all_missing THEN shape.n_rows ELSE 0,
                  IF c.n_unique < shape.n_rows THEN c.n_unique ELSE shape.n_rows),
     rare_class |-> c.rare_class]

Datasets == {Dataset(sh, c) : sh \in Shapes, c \in Contents}

TaskHints == {"auto", "classification", "regression"}

SelectableNames == {"Random Forest", "Linear Regression", "Random Forest (Tuned)"}

\* the lists without repetition of at most n names
RECURSIVE ListsUpTo(_)
ListsUpTo(n) ==
    IF n = 0 THEN {<<>>}
    ELSE ListsUpTo(n - 1) \cup
         {Append(l, x) : l \in {m \in ListsUpTo(n - 1) : Len(m) = n - 1},
                         x \in SelectableNames}

Selections ==
    {None} \cup {List(l) : l \in {m \in ListsUpTo(MaxSelected) :
                                    \A i, j \in DOMAIN m : i # j => m[i] # m[j]}}

\* what fit / predict / cross_val_score do with one candidate in Spec
ErrorMessages == {"", "err"}

RunEnvs(cv) ==
    {[fit |-> "ok", msg |-> "", test |-> Num(1), train |-> Num(1),
      second |-> Num(1), cv |-> c] : c \in IF cv THEN {"ok", "raise"} ELSE {"ok"}}
    \cup
    {[fit |-> "raise", msg |-> m, test |-> None, train |-> None,
      second |-> None, cv |-> "ok"] : m \in ErrorMessages}

\* the task compare_models resolves for a call, "regression" standing for a
\* call that never gets that far
TaskOfCall(df, hint) ==
    IF hint # "auto" THEN hint
    ELSE IF detect_task_type(YOf(df)).k = "ok" THEN detect_task_type(YOf(df)).v
    ELSE "regression"

(***************************************************************************)
(* Spec: compare_models, stage by stage.                                   *)
(***************************************************************************)
notRun == <<sesVars, detVars, prepVars, feVars, modVars>>

RunInit ==
    /\ pc = "idle"
    /\ args = None
    /\ task = "auto"
    /\ use_cv = FALSE
    /\ shown = [errors |-> <<>>, warnings |-> <<>>]
    /\ split = None
    /\ preprocessor = None
    /\ available_models = <<>>
    /\ results = <<>>
    /\ raised = None

\* a caller calls compare_models(df, target_col, task, ...)
Call ==
    /\ pc = "idle"
    /\ \E df \in Datasets, hint \in TaskHints, sel \in Selections,
          fast \in BOOLEAN, cv \in BOOLEAN, imb \in BOOLEAN :
          /\ Len(ResolveCandidates(TaskOfCall(df, hint), fast, sel, imb)) <= MaxCandidates
          /\ args' = [df |-> df, task |-> hint, selected_models |-> sel,
                      fast_mode |-> fast, use_cv |-> cv, handle_imbalance |-> imb]
          /\ task' = hint
          /\ use_cv' = cv
    /\ pc' = "validate"
    /\ shown' = [errors |-> <<>>, warnings |-> <<>>]
    /\ split' = None
    /\ preprocessor' = None
    /\ available_models' = <<>>
    /\ results' = <<>>
    /\ raised' = None
    /\ UNCHANGED notRun

\* l.248-264: errors are shown and st.stop() ends the script; warnings do not
Validate ==
    /\ pc = "validate"
    /\ LET v == validate_data_for_modeling(XOf(args.df), YOf(args.df), args.df.size_mb)
       IN  /\ shown' = [errors |-> v.errors, warnings |-> v.warnings]
           /\ pc' = IF v.is_valid THEN "detect" ELSE "stopped"
    /\ UNCHANGED <<args, task, use_cv, split, preprocessor, available_models,
                   results, raised>>
    /\ UNCHANGED notRun

\* l.266-268
DetectTask ==
    /\ pc = "detect"
    /\ IF task = "auto"
       THEN LET d == detect_task_type(YOf(args.df))
            IN  IF d.k = "ok"
                THEN task' = d.v /\ pc' = "size" /\ raised' = raised
                ELSE task' = task /\ pc' = "raised" /\ raised' = d
       ELSE task' = task /\ pc' = "size" /\ raised' = raised
    /\ UNCHANGED <<args, use_cv, shown, split, preprocessor, available_models, results>>
    /\ UNCHANGED notRun

\* l.270-281
SizeCheck ==
    /\ pc = "size"
    /\ use_cv' = EffectiveUseCv(args.df, use_cv)
    /\ pc' = "split"
    /\ UNCHANGED <<args, task, shown, split, preprocessor, available_models,
                   results, raised>>
    /\ UNCHANGED notRun

\* l.283-296
Split ==
    /\ pc = "split"
    /\ LET y == YOf(args.df)
           second == train_test_split(y, MinClass(args.df), FALSE)
           stratify_raises == train_test_split(y, MinClass(args.df), TRUE).k = "raise"
       IN  IF second.k = "raise"
           THEN split' = split /\ pc' = "raised" /\ raised' = second
           ELSE /\ \E seen \in TrainViews(args.df) :
                      split' = Divided(SplitData(task, args.handle_imbalance,
                                                 stratify_raises),
                                       X_trainOf(args.df, seen))
                /\ pc' = "build" /\ raised' = raised
    /\ UNCHANGED <<args, task, use_cv, shown, preprocessor, available_models, results>>
    /\ UNCHANGED notRun

\* l.298-299: build_preprocessor(X_train), defaults do_scale = True,
\* handle_high_cardinality = True
Build ==
    /\ pc = "build"
    /\ LET b == build_preprocessor(PlanInput(args.df, split.X_train), TRUE, TRUE)
       IN  IF b.k = "ok"
           THEN preprocessor' = b.v /\ pc' = "resolve" /\ raised' = raised
           ELSE preprocessor' = preprocessor /\ pc' = "raised" /\ raised' = b
    /\ UNCHANGED <<args, task, use_cv, shown, split, available_models, results>>
    /\ UNCHANGED notRun

\* l.301-315
Resolve ==
    /\ pc = "resolve"
    /\ available_models' =
           ResolveCandidates(task, args.fast_mode, args.selected_models,
                             args.handle_imbalance)
    /\ results' = <<>>
    /\ pc' = "train"
    /\ UNCHANGED <<args, task, use_cv, shown, split, preprocessor, raised>>
    /\ UNCHANGED notRun

\* l.322-347: one iteration of the loop
Train ==
    /\ pc = "train"
    /\ Len(results) < Len(available_models)
    /\ \E env \in RunEnvs(use_cv) :
          LET c == available_models[Len(results) + 1]
              fitted == Fit(preprocessor, split)
              r == train_and_evaluate_model(c.name, c.model, fitted, task,
                                            use_cv, env)
          IN  \* a fit that raises does so before or after the preprocessor
              \* step has been fitted
              \E now \in IF env.fit = "ok" THEN {fitted} ELSE {preprocessor, fitted} :
                 /\ preprocessor' = now
                 /\ IF r.k = "ok"
                    THEN /\ results' = Append(Rebind(results, now), r.v)
                         /\ pc' = pc /\ raised' = raised
                    ELSE /\ results' = Rebind(results, now)
                         /\ pc' = "raised" /\ raised' = r
    /\ UNCHANGED <<args, task, use_cv, shown, split, available_models>>
    /\ UNCHANGED notRun

\* l.349-354: return results, task
Return ==
    /\ pc = "train"
    /\ Len(results) = Len(available_models)
    /\ pc' = "returned"
    /\ UNCHANGED <<args, task, use_cv, shown, split, preprocessor, available_models,
                   results, raised>>
    /\ UNCHANGED notRun

\* the call is over (returned, stopped by st.stop() or left by an exception);
\* the caller may call again
Forget ==
    /\ pc \in {"returned", "stopped", "raised"}
    /\ pc' = "idle"
    /\ args' = None
    /\ task' = "auto"
    /\ use_cv' = FALSE
    /\ shown' = [errors |-> <<>>, warnings |-> <<>>]
    /\ split' = None
    /\ preprocessor' = None
    /\ available_models' = <<>>
    /\ results' = <<>>
    /\ raised' = None
    /\ UNCHANGED notRun

(***************************************************************************)
(* SpecDetect: detect_task_type on bounded targets, called up to twice on  *)
(* the same target.                                                        *)
(***************************************************************************)
TargetDtypes == {"object", "category", "int64", "float64", "bool"}

TargetLengths == {0, 1, 10, 11, 21, 200, 201, 211}

TargetUniques == {0, 1, 2, 20, 21}

Targets ==
    {Series(d, n, m, u) : d \in TargetDtypes, n \in TargetLengths,
                          m \in {0, 1} \cup TargetLengths, u \in TargetUniques}

\* a series is well formed when its counts are those of some series
WellFormedSeries(y) ==
    /\ y.n_missing <= y.n_total
    /\ y.n_unique <= y.n_total - y.n_missing
    /\ (y.n_unique = 0) <=> (y.n_missing = y.n_total)

MaxDetectCalls == 2

DetInit ==
    /\ target \in {y \in Targets : WellFormedSeries(y)}
    /\ detected = <<>>

DetectCall ==
    /\ Len(detected) < MaxDetectCalls
    /\ detected' = Append(detected, detect_task_type(target))
    /\ UNCHANGED <<target, runVars, sesVars, prepVars, feVars, modVars>>

(***************************************************************************)
(* SpecPrep: build_preprocessor on bounded feature tables.                 *)
(***************************************************************************)
MaxCols == 2

ColumnDtypes == {"int64", "float64", "object", "category", "bool",
                 "datetime64[ns]", "int32"}

ColumnUniques == {1, HighCardinalityLimit, HighCardinalityLimit + 1}

ColumnNames == <<"c1", "c2", "c3", "c4">>

\* the tables of exactly n columns, named c1 .. cn
RECURSIVE TablesOf(_)
TablesOf(n) ==
    IF n = 0 THEN {<<>>}
    ELSE {Append(t, Column(ColumnNames[n], d, u, FALSE)) :
            t \in TablesOf(n - 1), d \in ColumnDtypes, u \in ColumnUniques}

FeatureTables ==
    {Frame(r, cols) : r \in {0, 5}, cols \in UNION {TablesOf(n) : n \in 0..MaxCols}}

PrepInit ==
    /\ features \in FeatureTables
    /\ prep_flags \in [do_scale : BOOLEAN, handle_high_cardinality : BOOLEAN]
    /\ plan = None

BuildCall ==
    /\ plan = None
    /\ plan' = build_preprocessor(features, prep_flags.do_scale,
                                  prep_flags.handle_high_cardinality)
    /\ UNCHANGED <<features, prep_flags, runVars, sesVars, detVars, feVars, modVars>>

(***************************************************************************)
(* compare_models as one call: the stages above, composed.  envs gives the *)
(* library's behaviour for each candidate in turn.                         *)
(***************************************************************************)
RECURSIVE TrainAll(_, _, _, _, _)
TrainAll(models, envs, prep, t, cv) ==
    IF models = <<>> THEN Ok(<<>>)
    ELSE LET r == train_and_evaluate_model(Head(models).name, Head(models).model,
                                           prep, t, cv, Head(envs))
             rest == TrainAll(Tail(models), Tail(envs), prep, t, cv)
         IN  IF r.k = "raise" THEN r
             ELSE IF rest.k = "raise" THEN rest
             ELSE Ok(<<r.v>> \o rest.v)

compare_models(a, envs) ==
    LET v == validate_data_for_modeling(XOf(a.df), YOf(a.df), a.df.size_mb)
        d == IF a.task = "auto" THEN detect_task_type(YOf(a.df)) ELSE Ok(a.task)
        s == train_test_split(YOf(a.df), MinClass(a.df), FALSE)
        b == build_preprocessor(PlanInput(a.df, X_trainOf(a.df, FullView(a.df))),
                                TRUE, TRUE)
    IN  IF ~v.is_valid THEN [k |-> "stop", errors |-> v.errors]
        ELSE IF d.k = "raise" THEN d
        ELSE IF s.k = "raise" THEN s
        ELSE IF b.k = "raise" THEN b
        ELSE LET tr == TrainAll(ResolveCandidates(d.v, a.fast_mode, a.selected_models,
                                                  a.handle_imbalance),
                                envs, b.v, d.v, EffectiveUseCv(a.df, a.use_cv))
             IN  IF tr.k = "raise" THEN tr
                 ELSE Ok([results |-> tr.v, task |-> d.v])

(***************************************************************************)
(* Choosing the best result.                                               *)
(***************************************************************************)
IsSuccess(r) == r.success

Scores(rs) == [i \in DOMAIN rs |-> rs[i].test_score]

\* numpy.argmax of a non-empty list of floats: the first NaN when there is
\* one (NaN propagates as the maximum), else the first occurrence of the
\* maximum.  Indices from 1.
NpArgmax(s) ==
    IF \E i \in DOMAIN s : s[i] = NaN
    THEN CHOOSE i \in DOMAIN s : s[i] = NaN /\ \A j \in 1..(i - 1) : s[j] # NaN
    ELSE CHOOSE i \in DOMAIN s :
             /\ \A j \in DOMAIN s : s[j].v <= s[i].v
             /\ \A j \in 1..(i - 1) : s[j].v < s[i].v

\* max(range(len(s)), key=lambda i: s[i]): the running best is replaced only
\* by an element that compares greater.  Indices from 1.
RECURSIVE PyMaxFrom(_, _, _)
PyMaxFrom(s, bestIdx, i) ==
    IF i > Len(s) THEN bestIdx
    ELSE PyMaxFrom(s, IF FloatGt(s[i], s[bestIdx]) THEN i ELSE bestIdx, i + 1)

PyMaxIndex(s) == PyMaxFrom(s, 1, 2)

\* the first result taken for the best, successful or not
FirstResult(rs) == IF rs = <<>> THEN None ELSE rs[1]

\* clim_model_comparison.display_comparison_results: the best result, or None
display_comparison_results(rs) ==
    LET successful_results == SelectSeq(rs, IsSuccess)
    IN  IF successful_results = <<>> THEN None
        ELSE successful_results[NpArgmax(Scores(successful_results))]

\* l.369-387: one row of results_df per successful result
ResultRow(r) == [model_name |-> r.model_name, test_score |-> r.test_score]

\* the rows left in the order of the result list
KeepOrder(rows) == rows

\* l.390, sort_values("Score Test", ascending=False): descending, missing
\* scores last, equal scores in their order of arrival
RECURSIVE SortByScoreDescending(_)
SortByScoreDescending(rows) ==
    IF rows = <<>> THEN <<>>
    ELSE LET r == rows[Len(rows)]
             sorted == SortByScoreDescending(SubSeq(rows, 1, Len(rows) - 1))
             Before(x) == \/ r.test_score = NaN
                          \/ (x.test_score # NaN /\ x.test_score.v >= r.test_score.v)
             After(x) == ~Before(x)
         IN  SelectSeq(sorted, Before) \o <<r>> \o SelectSeq(sorted, After)

\* l.361, l.389-390: results_df, or None when the function returns at l.366
results_df(rs) ==
    LET successful_results == SelectSeq(rs, IsSuccess)
    IN  IF successful_results = <<>> THEN None
        ELSE List(SortByScoreDescending(
                    [i \in DOMAIN successful_results |-> ResultRow(successful_results[i])]))

IsFailure(r) == ~r.success

\* l.362, l.467-472: the failed models listed under the checkbox, or None when
\* the function returned before (l.366) or nothing failed
failed_results(rs) ==
    LET failed == SelectSeq(rs, IsFailure)
    IN  IF SelectSeq(rs, IsSuccess) = <<>> \/ failed = <<>> THEN None
        ELSE List([i \in DOMAIN failed |->
                     [model_name |-> failed[i].model_name, error |-> failed[i].error]])

\* clim_app.page_modeling, l.856-858
RefinementBest(rs) ==
    LET successful_results == SelectSeq(rs, IsSuccess)
    IN  successful_results[PyMaxIndex(Scores(successful_results))]

(***************************************************************************)
(* SpecSession: clim_app.page_modeling.  st.session_state holds the three  *)
(* keys the page writes (None: the key is absent); `page` is what the last *)
(* handler did.  One action is one run of the page script with the button  *)
(* of the chosen mode pressed.                                             *)
(***************************************************************************)
\* the longest list picked in the multiselect
MaxPicked == 2

SessionDatasets ==
    {Dataset([n_rows |-> 30, size_mb |-> 5], c) :
        c \in {x \in Contents : x.cols = NumericCols /\ ~x.all_missing /\ ~x.rare_class}}

\* l.753: the options of the single-model selectbox
SingleModelOptions == {"Random Forest", "Gradient Boosting", "Logistic Regression",
                       "Linear Regression", "Decision Tree"}

\* the names offered in the multiselect that the session picks among
PickableNames == {"Random Forest", "Gradient Boosting", "Decision Tree"}

SessionEnvs(cv) ==
    {[fit |-> "ok", msg |-> "", test |-> t, train |-> Num(1),
      second |-> Num(1), cv |-> "ok"] : t \in {Num(0), Num(1), NaN}}
    \cup
    {[fit |-> "raise", msg |-> "err", test |-> None, train |-> None,
      second |-> None, cv |-> "ok"]}

\* the settings of the sidebar widgets (l.717-741) a run of the page is made with
Widgets ==
    {[task |-> "auto", fast |-> TRUE, cv |-> FALSE, imb |-> TRUE],
     [task |-> "regression", fast |-> FALSE, cv |-> TRUE, imb |-> FALSE]}

\* the sequences of n environments
RECURSIVE EnvSeqs(_, _)
EnvSeqs(n, cv) ==
    IF n = 0 THEN {<<>>}
    ELSE {<<e>> \o rest : e \in SessionEnvs(cv), rest \in EnvSeqs(n - 1, cv)}

CallArgs(df, hint, sel, fast, cv, imb) ==
    [df |-> df, task |-> hint, selected_models |-> sel, fast_mode |-> fast,
     use_cv |-> cv, handle_imbalance |-> imb]

CandidateCount(a) ==
    Len(ResolveCandidates(TaskOfCall(a.df, a.task), a.fast_mode,
                          a.selected_models, a.handle_imbalance))

\* l.773-784, l.834-845: the stored model info
ModelInfo(final_task, r) ==
    [task_type |-> final_task, model_name |-> r.model_name,
     metric_name |-> r.metric_name, metric_value |-> r.test_score,
     f1_score |-> r.f1_score, cv_scores |-> r.cv_scores]

\* the page runs of one session in the training modes; one more run may be
\* made in the refinement mode
MaxRuns == 2

Quiet == [handler |-> "none", runs |-> 0, trained |-> 0, best |-> None,
          message |-> None, tuned_model |-> None, tuned_results |-> None,
          delta |-> None, results |-> None, ranking |-> None, failures |-> None]

\* one more run of the page script, by the named handler
Rerun(handler) == [Quiet EXCEPT !.handler = handler, !.runs = page.runs + 1]

SesInit ==
    /\ session = [clim_model |-> None, clim_model_info |-> None,
                  clim_comparison_results |-> None]
    /\ page = Quiet

notSes == <<runVars, detVars, prepVars, feVars, modVars>>

\* l.747-793: "Entrainer le modele"
ClickTrainSingle ==
    /\ page.runs < MaxRuns
    /\ \E df \in SessionDatasets, w \in Widgets, name \in SingleModelOptions :
          LET a == CallArgs(df, w.task, List(<<name>>), w.fast, w.cv, w.imb)
          IN  \E envs \in EnvSeqs(CandidateCount(a), EffectiveUseCv(df, w.cv)) :
                LET out == compare_models(a, envs)
                    stored == out.k = "ok" /\ out.v.results # <<>>
                              /\ out.v.results[1].success
                IN  /\ session' =
                          IF stored
                          THEN [session EXCEPT
                                  !.clim_model = out.v.results[1].pipeline,
                                  !.clim_model_info = ModelInfo(out.v.task, out.v.results[1])]
                          ELSE session
                    /\ page' = [Rerun("single") EXCEPT
                                  !.trained = IF out.k = "ok" THEN Len(out.v.results) ELSE 0,
                                  !.best = IF stored THEN Str(out.v.results[1].model_name)
                                           ELSE None]
    /\ UNCHANGED notSes

\* the non-empty sublists, in catalog order, of at most MaxPicked pickable
\* names of the catalog shown in the multiselect (l.801-810)
Picks(t, fast) ==
    LET names == {m.name : m \in Range(get_available_models(t, fast))} \cap PickableNames
    IN  {List(l) : l \in {m \in UNION {[1..n -> names] : n \in 1..MaxPicked} :
                             \A i, j \in DOMAIN m : i # j => m[i] # m[j]}}

\* l.796-846: "Comparer les modeles" with a non-empty selection
ClickCompare ==
    /\ page.runs < MaxRuns
    /\ \E df \in SessionDatasets, w \in Widgets :
        \E sel \in Picks(TaskOfCall(df, w.task), w.fast) :
          LET a == CallArgs(df, w.task, sel, w.fast, w.cv, w.imb)
          IN  \E envs \in EnvSeqs(CandidateCount(a), EffectiveUseCv(df, w.cv)) :
                LET out == compare_models(a, envs)
                    best_result == IF out.k = "ok"
                                   THEN display_comparison_results(out.v.results)
                                   ELSE None
                IN  /\ session' =
                          IF best_result # None
                          THEN [clim_model |-> best_result.pipeline,
                                clim_model_info |-> ModelInfo(out.v.task, best_result),
                                clim_comparison_results |-> List(out.v.results)]
                          ELSE session
                    /\ page' = [Rerun("compare") EXCEPT
                                  !.trained = IF out.k = "ok" THEN Len(out.v.results) ELSE 0,
                                  !.best = IF best_result # None
                                           THEN Str(best_result.model_name) ELSE None,
                                  !.results = IF out.k = "ok" THEN List(out.v.results)
                                              ELSE None,
                                  !.ranking = IF out.k = "ok" THEN results_df(out.v.results)
                                              ELSE None,
                                  !.failures = IF out.k = "ok"
                                               THEN failed_results(out.v.results)
                                               ELSE None]
    /\ UNCHANGED notSes

\* l.813-814: "Comparer les modeles" with nothing selected
ClickCompareNothing ==
    /\ page.runs < MaxRuns
    /\ page' = [Rerun("compare") EXCEPT
                  !.message = Str("Veuillez selectionner au moins un modele.")]
    /\ UNCHANGED <<session, notSes>>

\* l.878-883: the slider defaults, read off the best result's estimator
SliderDefaults(current_model) ==
    [n_estimators |-> IF "n_estimators" \in DOMAIN current_model
                      THEN current_model.n_estimators ELSE 100,
     max_depth |-> IF "max_depth" \in DOMAIN current_model
                      /\ current_model.max_depth # None
                   THEN current_model.max_depth.v ELSE 10,
     min_samples_split |-> IF "min_samples_split" \in DOMAIN current_model
                           THEN current_model.min_samples_split ELSE 2]

\* the slider positions a refinement is made with: the defaults, or moved
SliderValues(defaults) ==
    {defaults, [n_estimators |-> 300, max_depth |-> 12, min_samples_split |-> 5]}

\* l.901-917
TunedForest(task_type, hp, handle_imbalance) ==
    IF task_type = "classification"
    THEN [cls |-> "RandomForestClassifier", n_estimators |-> hp.n_estimators,
          max_depth |-> Num(hp.max_depth), min_samples_split |-> hp.min_samples_split,
          random_state |-> RandomState,
          class_weight |-> IF handle_imbalance THEN Str("balanced") ELSE None]
    ELSE [cls |-> "RandomForestRegressor", n_estimators |-> hp.n_estimators,
          max_depth |-> Num(hp.max_depth), min_samples_split |-> hp.min_samples_split,
          random_state |-> RandomState]

\* a - b on floats
FloatSub(a, b) == IF a = NaN \/ b = NaN THEN NaN ELSE Num(a.v - b.v)

\* the model family the refinement branches on (l.876, l.977)
\* every family taken for a random forest
AnyFamilyIsForest(name) == TRUE

IsForest(name) == name \in {"Random Forest", "Random Forest (Tuned)"}

IsBoosting(name) == name = "Gradient Boosting"

\* l.849-873, l.991-998: the refinement mode is shown and no button pressed
ViewRefine ==
    /\ page.runs <= MaxRuns
    /\ page' =
         IF session.clim_comparison_results = None
         THEN [Rerun("refine") EXCEPT
                 !.message = Str("Veuillez d'abord comparer des modeles.")]
         ELSE IF SelectSeq(session.clim_comparison_results.v, IsSuccess) = <<>>
         THEN [Rerun("refine") EXCEPT !.message = Str("ValueError")]
         ELSE LET best_result == RefinementBest(session.clim_comparison_results.v)
              IN  [Rerun("refine") EXCEPT
                     !.best = Str(best_result.model_name),
                     !.message = IF IsForest(best_result.model_name)
                                    \/ IsBoosting(best_result.model_name)
                                 THEN None
                                 ELSE Str("sera ajoute prochainement")]
    /\ UNCHANGED <<session, notSes>>

\* l.876-975: "Affiner le modele" pressed, the best result being a random forest
ClickRefineForest ==
    /\ page.runs <= MaxRuns
    /\ session.clim_comparison_results # None
    /\ SelectSeq(session.clim_comparison_results.v, IsSuccess) # <<>>
    /\ LET best_result == RefinementBest(session.clim_comparison_results.v)
       IN  /\ IsForest(best_result.model_name)
           /\ \E df \in SessionDatasets, w \in Widgets,
                 hp \in SliderValues(SliderDefaults(best_result.pipeline.model)) :
                LET task_type == IF session.clim_model_info # None
                                 THEN session.clim_model_info.task_type
                                 ELSE detect_task_type(YOf(df)).v
                    tuned_model == TunedForest(task_type, hp, w.imb)
                    a == CallArgs(df, task_type, List(<<"Random Forest (Tuned)">>),
                                  FALSE, w.cv, w.imb)
                IN  \E envs \in EnvSeqs(CandidateCount(a), EffectiveUseCv(df, w.cv)) :
                      LET out == compare_models(a, envs)
                          tuned_results == IF out.k = "ok" THEN out.v.results ELSE <<>>
                          saved == tuned_results # <<>> /\ tuned_results[1].success
                      IN  /\ session' =
                                IF saved
                                THEN [session EXCEPT
                                        !.clim_model = tuned_results[1].pipeline,
                                        !.clim_model_info =
                                            [ModelInfo(task_type, tuned_results[1]) EXCEPT
                                               !.model_name = tuned_results[1].model_name
                                                              \o " (Affine)"]]
                                ELSE session
                          /\ page' = [Rerun("refine") EXCEPT
                                        !.best = Str(best_result.model_name),
                                        !.trained = Len(tuned_results),
                                        !.tuned_model = tuned_model,
                                        !.tuned_results = List(tuned_results),
                                        !.delta = IF saved
                                                  THEN FloatSub(tuned_results[1].test_score,
                                                                best_result.test_score)
                                                  ELSE None]
    /\ UNCHANGED notSes

\* l.977-989: "Affiner le modele" pressed, the best result being a gradient boosting
ClickRefineBoosting ==
    /\ page.runs <= MaxRuns
    /\ session.clim_comparison_results # None
    /\ SelectSeq(session.clim_comparison_results.v, IsSuccess) # <<>>
    /\ LET best_result == RefinementBest(session.clim_comparison_results.v)
       IN  /\ ~IsForest(best_result.model_name)
           /\ IsBoosting(best_result.model_name)
           /\ page' = [Rerun("refine") EXCEPT
                         !.best = Str(best_result.model_name),
                         !.message = Str("Implementation complete a venir pour Gradient Boosting")]
    /\ UNCHANGED <<session, notSes>>

(***************************************************************************)
(* clim_modeling.run_climate_modeling.  The dataset is [has_target,        *)
(* has_date, cols, y, min_class]: whether the target and the date columns  *)
(* are in it, its feature columns, its target series and the size of the   *)
(* target's least populated class.  env is what fit / predict and the      *)
(* time-series cross-validation do.                                        *)
(***************************************************************************)
\* the retry removed: the error of the stratified split leaves the function
SplitWithoutFallback(y, min_class, task_type) ==
    LET first == train_test_split(y, min_class, task_type = "classification")
    IN  IF first.k = "ok"
        THEN Ok([n_train |-> first.v.n_train,
                 used_stratify |-> task_type = "classification"])
        ELSE first

\* l.64-85: the stratified split for a classification, the unstratified one
\* again when it raises ValueError
ModelingSplit(y, min_class, task_type) ==
    LET stratify_arg == task_type = "classification"
        first == train_test_split(y, min_class, stratify_arg)
    IN  IF first.k = "ok"
        THEN Ok([n_train |-> first.v.n_train, used_stratify |-> stratify_arg])
        ELSE LET second == train_test_split(y, min_class, FALSE)
             IN  IF second.k = "ok"
                 THEN Ok([n_train |-> second.v.n_train, used_stratify |-> FALSE])
                 ELSE second

\* l.89-111: the estimator for model_name and the task
ModelingEstimator(model_name, task_type, handle_imbalance) ==
    LET class_weight_arg ==
            IF handle_imbalance /\ task_type = "classification"
            THEN Str("balanced") ELSE None
    IN  IF model_name = "RandomForest"
        THEN IF task_type = "classification"
             THEN [class |-> "RandomForestClassifier", class_weight |-> class_weight_arg]
             ELSE [class |-> "RandomForestRegressor"]
        ELSE IF model_name = "GradientBoosting"
        THEN IF task_type = "classification"
             THEN [class |-> "GradientBoostingClassifier"]
             ELSE [class |-> "GradientBoostingRegressor"]
        ELSE IF task_type = "classification"
             THEN [class |-> "LogisticRegression", class_weight |-> class_weight_arg]
             ELSE [class |-> "LinearRegression"]

run_climate_modeling(df, model_name, handle_imbalance, use_time_validation, env) ==
    IF ~df.has_target
    THEN Raise("ValueError", "Colonne cible absente du DataFrame")
    ELSE
    LET detected_task == detect_task_type(df.y)
    IN  IF detected_task.k = "raise" THEN detected_task
        ELSE
        LET task_type == detected_task.v
            parts == ModelingSplit(df.y, df.min_class, task_type)
        IN  IF parts.k = "raise" THEN parts
            ELSE
            LET built == build_preprocessor([n_rows |-> parts.v.n_train, cols |-> df.cols],
                                            TRUE, TRUE)
            IN  IF built.k = "raise" THEN built
                ELSE IF env.fit = "raise" THEN Raise("Exception", env.msg)
                ELSE Ok([task_type |-> task_type,
                         used_stratify |-> parts.v.used_stratify,
                         model_name |-> model_name,
                         pipeline |-> Pipeline(built.v,
                                               ModelingEstimator(model_name, task_type,
                                                                 handle_imbalance)),
                         metric_name |-> IF task_type = "classification"
                                         THEN "accuracy" ELSE "rmse",
                         metric_value |-> env.test,
                         f1_score |-> IF task_type = "classification"
                                      THEN env.second ELSE None,
                         cv_scores |-> IF use_time_validation /\ df.has_date
                                          /\ env.cv = "ok"
                                       THEN env.test ELSE None,
                         handle_imbalance |-> handle_imbalance,
                         use_time_validation |-> use_time_validation])

(***************************************************************************)
(* SpecModeling: run_climate_modeling applied once to a dataset.           *)
(***************************************************************************)
\* (rows, distinct values) of the targets
TargetShapes ==
    { [n_total |-> 0, n_unique |-> 0], [n_total |-> 1, n_unique |-> 1],
      [n_total |-> 5, n_unique |-> 2], [n_total |-> 30, n_unique |-> 2],
      [n_total |-> 30, n_unique |-> 25] }

\* the least populated class is no larger than the rows allow
ClimateDatasets ==
    { d \in { [has_target |-> ht, has_date |-> hd, cols |-> cols,
               y |-> Series(dtype, sh.n_total, 0, sh.n_unique), min_class |-> mc] :
                 ht \in BOOLEAN, hd \in BOOLEAN, cols \in {<<>>, NumericCols},
                 dtype \in {"object", "int64", "float64"}, sh \in TargetShapes,
                 mc \in {1, 2} } :
        /\ d.min_class * d.y.n_unique <= d.y.n_total
        /\ d.y.n_total = 0 => d.min_class = 1 }

ModelNames == {"RandomForest", "GradientBoosting", "Linear/Logistic"}

ModelingEnvs ==
    {[fit |-> "ok", msg |-> "", test |-> Num(1), second |-> Num(1), cv |-> c] :
        c \in {"ok", "raise"}}
    \cup {[fit |-> "raise", msg |-> "err", test |-> None, second |-> None, cv |-> "ok"]}

ModInit ==
    /\ climate_df \in ClimateDatasets
    /\ climate_run = None

\* a caller calls run_climate_modeling(df, target_col, ...)
RunClimateModeling ==
    /\ climate_run = None
    /\ \E model_name \in ModelNames, handle_imbalance \in BOOLEAN,
          use_time_validation \in BOOLEAN, env \in ModelingEnvs :
          climate_run' =
              [model_name |-> model_name, handle_imbalance |-> handle_imbalance,
               use_time_validation |-> use_time_validation,
               out |-> run_climate_modeling(climate_df, model_name, handle_imbalance,
                                            use_time_validation, env)]
    /\ UNCHANGED <<climate_df, runVars, sesVars, detVars, prepVars, feVars>>

(***************************************************************************)
(* Tables of clim_preprocessing.  A table is its row labels (the pandas    *)
(* index), in row order, and its columns in column order; a column is its  *)
(* name, its kind ("datetime" or "number") and one cell per row.  Two      *)
(* columns may bear the same name, as in pandas.  A cell is a date, a      *)
(* missing value (NaN) or a number n/d in lowest terms: rolling means are  *)
(* computed exactly, floating-point rounding is not modelled.  A date is   *)
(* a month count, 12 * year + month - 1.                                   *)
(***************************************************************************)
RECURSIVE Gcd(_, _)
Gcd(a, b) == IF b = 0 THEN a ELSE Gcd(b, a % b)

Abs(x) == IF x < 0 THEN -x ELSE x

Cell(n, d) ==
    LET g == Gcd(Abs(n), d)
    IN  [k |-> "val", n |-> n \div g, d |-> d \div g]

DateCell(year, month) == [k |-> "date", v |-> 12 * year + month - 1]

MonthOf(c) == (c.v % 12) + 1

CellAdd(a, b) == Cell(a.n * b.d + b.n * a.d, a.d * b.d)

CellSub(a, b) == Cell(a.n * b.d - b.n * a.d, a.d * b.d)

CellLess(a, b) == a.n * b.d < b.n * a.d

RECURSIVE SumAt(_, _)
SumAt(vals, S) ==
    IF S = {} THEN Cell(0, 1)
    ELSE LET j == CHOOSE x \in S : TRUE
         IN  CellAdd(vals[j], SumAt(vals, S \ {j}))

MeanAt(vals, S) ==
    LET t == SumAt(vals, S) IN Cell(t.n, t.d * Cardinality(S))

MaxAt(vals, S) ==
    vals[CHOOSE j \in S : \A i \in S : ~CellLess(vals[j], vals[i])]

MinAt(vals, S) ==
    vals[CHOOSE j \in S : \A i \in S : ~CellLess(vals[i], vals[j])]

Col(name, kind, vals) == [name |-> name, kind |-> kind, vals |-> vals]

Table(index, cols) == [index |-> index, cols |-> cols]

ColumnNamesOf(t) == {t.cols[i].name : i \in DOMAIN t.cols}

\* the columns of t bearing the name, in column order
RECURSIVE ColsNamed(_, _)
ColsNamed(cols, name) ==
    IF cols = <<>> THEN <<>>
    ELSE (IF Head(cols).name = name THEN <<Head(cols)>> ELSE <<>>)
         \o ColsNamed(Tail(cols), name)

\* df[names]: for each name in turn, every column bearing it
RECURSIVE SelectCols(_, _)
SelectCols(cols, names) ==
    IF names = <<>> THEN <<>>
    ELSE ColsNamed(cols, Head(names)) \o SelectCols(cols, Tail(names))

\* df.sort_values(date_col): the rows in ascending date order (the dates of
\* the tables explored are distinct)
SortOrder(dates) ==
    CHOOSE p \in [DOMAIN dates -> DOMAIN dates] :
        /\ \A i, j \in DOMAIN dates : i # j => p[i] # p[j]
        /\ \A i, j \in DOMAIN dates : i < j => dates[p[i]].v <= dates[p[j]].v

Permute(s, p) == [i \in DOMAIN s |-> s[p[i]]]

sort_values(t, date_col) ==
    LET p == SortOrder(ColsNamed(t.cols, date_col)[1].vals)
    IN  Table(Permute(t.index, p),
              [c \in DOMAIN t.cols |->
                  [t.cols[c] EXCEPT !.vals = Permute(t.cols[c].vals, p)]])

\* rolling with min_periods left at the window size: no aggregate until w
\* rows are available
RollingFullWindowsOnly(vals, w, agg) ==
    [i \in DOMAIN vals |->
        LET S == {j \in (i - w + 1)..i : vals[j].k = "val"}
        IN  IF i - w + 1 < 1 \/ S = {} THEN NaN
            ELSE IF agg = "mean" THEN MeanAt(vals, S)
            ELSE IF agg = "sum" THEN SumAt(vals, S)
            ELSE IF agg = "max" THEN MaxAt(vals, S)
            ELSE MinAt(vals, S)]

\* Series.rolling(window=w, min_periods=1).<agg>(): over the last w rows up
\* to each row, the aggregate of the values present; NaN when none is
rolling(vals, w, agg) ==
    [i \in DOMAIN vals |->
        LET lo == IF i - w + 1 < 1 THEN 1 ELSE i - w + 1
            S == {j \in lo..i : vals[j].k = "val"}
        IN  IF S = {} THEN NaN
            ELSE IF agg = "mean" THEN MeanAt(vals, S)
            ELSE IF agg = "sum" THEN SumAt(vals, S)
            ELSE IF agg = "max" THEN MaxAt(vals, S)
            ELSE MinAt(vals, S)]

\* the column an operation adds for a source column and a window
FeatureName(kind, col, w) ==
    IF kind = "roll" THEN col \o "_roll_" \o ToString(w)
    ELSE IF kind = "cumul" THEN col \o "_cumul_" \o ToString(w) \o "j"
    ELSE IF kind = "max" THEN col \o "_max_" \o ToString(w) \o "j"
    ELSE col \o "_min_" \o ToString(w) \o "j"

\* the rolling mean computed as a rolling sum
AggSumForMean(kind) ==
    IF kind \in {"roll", "cumul"} THEN "sum" ELSE kind

AggOf(kind) ==
    IF kind = "roll" THEN "mean" ELSE IF kind = "cumul" THEN "sum" ELSE kind

\* rolled = df[valid_cols].rolling(...).<agg>(); rolled.columns = [...]:
\* the renamed columns, or the ValueError pandas raises when the selection
\* holds more columns than there are names
RolledColumns(t, valid_cols, w, kind) ==
    LET picked == SelectCols(t.cols, valid_cols)
    IN  IF Len(picked) # Len(valid_cols)
        THEN Raise("ValueError", "Length mismatch")
        ELSE Ok([i \in DOMAIN picked |->
                    Col(FeatureName(kind, valid_cols[i], w), "number",
                        rolling(picked[i].vals, w, AggOf(kind)))])

\* pd.concat([df, extra], axis=1)
concat(t, extra) == Table(t.index, t.cols \o extra)

\* df[name] = vals: the column bearing the name is replaced in place, or a
\* new last column is added
SetColumn(t, name, vals) ==
    IF name \in ColumnNamesOf(t)
    THEN Table(t.index,
               [c \in DOMAIN t.cols |->
                   IF t.cols[c].name = name
                   THEN Col(name, "number", vals) ELSE t.cols[c]])
    ELSE Table(t.index, Append(t.cols, Col(name, "number", vals)))

\* df.drop(columns=[name])
RECURSIVE DropNamed(_, _)
DropNamed(cols, name) ==
    IF cols = <<>> THEN <<>>
    ELSE (IF Head(cols).name = name THEN <<>> ELSE <<Head(cols)>>)
         \o DropNamed(Tail(cols), name)

\* [col for col in value_cols if col in df.columns]
ValidCols(t, value_cols) == FilterSeq(value_cols, ColumnNamesOf(t))

\* df.select_dtypes(include=["number"]).columns.tolist()
RECURSIVE NumberColumns(_)
NumberColumns(cols) ==
    IF cols = <<>> THEN <<>>
    ELSE (IF Head(cols).kind = "number" THEN <<Head(cols).name>> ELSE <<>>)
         \o NumberColumns(Tail(cols))

\* the loop over the windows of add_rolling_features, add_cumulative_features
\* (kinds = <<"roll">>, <<"cumul">>) and add_extreme_features (<<"max", "min">>)
RECURSIVE AddWindows(_, _, _, _)
AddWindows(t, valid_cols, windows, kinds) ==
    IF windows = <<>> THEN Ok(t)
    ELSE LET blocks == [i \in DOMAIN kinds |->
                           RolledColumns(t, valid_cols, Head(windows), kinds[i])]
         IN  IF blocks[1].k = "raise" THEN blocks[1]
             ELSE AddWindows(concat(t, IF Len(kinds) = 1 THEN blocks[1].v
                                       ELSE blocks[1].v \o blocks[2].v),
                             valid_cols, Tail(windows), kinds)

\* `return df`: the caller's own table object is handed back, not a copy
Same(df) == [k |-> "ok", v |-> df, own |-> TRUE]

\* clim_preprocessing.add_rolling_features; value_cols and windows may be None
add_rolling_features(df, date_col, value_cols, windows) ==
    IF date_col \notin ColumnNamesOf(df) THEN Same(df)
    ELSE LET new_df == sort_values(df, date_col)
             cols == IF value_cols = None THEN NumberColumns(new_df.cols)
                     ELSE value_cols.v
         IN  AddWindows(new_df, ValidCols(new_df, cols),
                        IF windows = None THEN <<3, 7>> ELSE windows.v, <<"roll">>)

\* clim_preprocessing.add_cumulative_features
add_cumulative_features(df, date_col, value_cols, windows) ==
    IF date_col \notin ColumnNamesOf(df) THEN Raise("KeyError", date_col)
    ELSE LET df_out == sort_values(df, date_col)
         IN  AddWindows(df_out, ValidCols(df_out, value_cols.v), windows.v, <<"cumul">>)

\* clim_preprocessing.add_extreme_features
add_extreme_features(df, date_col, value_cols, windows) ==
    IF date_col \notin ColumnNamesOf(df) THEN Raise("KeyError", date_col)
    ELSE LET df_out == sort_values(df, date_col)
         IN  AddWindows(df_out, ValidCols(df_out, value_cols.v), windows.v,
                        <<"max", "min">>)

\* str(threshold) of a whole float
ThresholdText(threshold) == ToString(threshold) \o ".0"

ThresholdName(col, threshold, w) ==
    col \o "_days_above_" \o ThresholdText(threshold) \o "_" \o ToString(w) \o "j"

\* the exceedance test with >= in place of >
ExceedOrEqual(vals, threshold) ==
    [i \in DOMAIN vals |->
        IF vals[i].k = "val" /\ vals[i].n >= threshold * vals[i].d
        THEN Cell(1, 1) ELSE Cell(0, 1)]

\* (df_out[col] > threshold).astype(int)
Exceed(vals, threshold) ==
    [i \in DOMAIN vals |->
        IF vals[i].k = "val" /\ vals[i].n > threshold * vals[i].d
        THEN Cell(1, 1) ELSE Cell(0, 1)]

RECURSIVE ThresholdWindows(_, _, _, _, _)
ThresholdWindows(t, col, threshold, exceed, windows) ==
    IF windows = <<>> THEN t
    ELSE ThresholdWindows(
             SetColumn(t, ThresholdName(col, threshold, Head(windows)),
                       rolling(exceed, Head(windows), "sum")),
             col, threshold, exceed, Tail(windows))

RECURSIVE ThresholdCols(_, _, _, _)
ThresholdCols(t, value_cols, thresholds, windows) ==
    IF value_cols = <<>> THEN Ok(t)
    ELSE LET col == Head(value_cols)
         IN  IF col \notin ColumnNamesOf(t) \/ col \notin DOMAIN thresholds
             THEN ThresholdCols(t, Tail(value_cols), thresholds, windows)
             ELSE IF Len(ColsNamed(t.cols, col)) > 1
             THEN Raise("ValueError", "Cannot set a DataFrame with multiple columns")
             ELSE ThresholdCols(
                      ThresholdWindows(t, col, thresholds[col],
                                       Exceed(ColsNamed(t.cols, col)[1].vals,
                                              thresholds[col]),
                                       windows),
                      Tail(value_cols), thresholds, windows)

\* clim_preprocessing.add_threshold_exceedance_features
add_threshold_exceedance_features(df, date_col, value_cols, thresholds, windows) ==
    IF date_col \notin ColumnNamesOf(df) THEN Raise("KeyError", date_col)
    ELSE ThresholdCols(sort_values(df, date_col), value_cols.v, thresholds, windows.v)

\* the monthly means taken over every row, the reference period ignored
MonthlyRefAllRows(months, vals, ref_rows) ==
    [m \in {months[i].n : i \in DOMAIN vals} |->
        LET S == {i \in DOMAIN vals : months[i].n = m /\ vals[i].k = "val"}
        IN  IF S = {} THEN NaN ELSE MeanAt(vals, S)]

\* df_ref.groupby("_month")[col].mean().to_dict(): for each month of the
\* reference rows, the mean of the values present (NaN when none is)
MonthlyRef(months, vals, ref_rows) ==
    [m \in {months[i].n : i \in ref_rows} |->
        LET S == {i \in ref_rows : months[i].n = m /\ vals[i].k = "val"}
        IN  IF S = {} THEN NaN ELSE MeanAt(vals, S)]

Anomaly(months, vals, monthly_ref) ==
    [i \in DOMAIN vals |->
        IF vals[i].k = "val" /\ months[i].n \in DOMAIN monthly_ref
        THEN IF monthly_ref[months[i].n] = NaN THEN NaN
             ELSE CellSub(vals[i], monthly_ref[months[i].n])
        ELSE NaN]

RECURSIVE AnomalyCols(_, _, _)
AnomalyCols(t, value_cols, ref_rows) ==
    IF value_cols = <<>> THEN Ok(t)
    ELSE LET col == Head(value_cols)
             months == ColsNamed(t.cols, "_month")[1].vals
         IN  IF col \notin ColumnNamesOf(t)
             THEN AnomalyCols(t, Tail(value_cols), ref_rows)
             ELSE IF Len(ColsNamed(t.cols, col)) > 1
             THEN Raise("ValueError", "The truth value of a Series is ambiguous")
             ELSE LET vals == ColsNamed(t.cols, col)[1].vals
                  IN  AnomalyCols(
                          SetColumn(t, col \o "_anomaly_vs_ref",
                                    Anomaly(months, vals,
                                            MonthlyRef(months, vals, ref_rows))),
                          Tail(value_cols), ref_rows)

\* clim_preprocessing.add_reference_anomaly_features
add_reference_anomaly_features(df, date_col, value_cols, reference_start, reference_end) ==
    IF date_col \notin ColumnNamesOf(df) THEN Raise("KeyError", date_col)
    ELSE LET sorted == sort_values(df, date_col)
             dates == ColsNamed(sorted.cols, date_col)[1].vals
             df_out == SetColumn(sorted, "_month",
                                 [i \in DOMAIN dates |-> Cell(MonthOf(dates[i]), 1)])
             ref_rows == {i \in DOMAIN dates :
                             reference_start.v <= dates[i].v
                             /\ dates[i].v <= reference_end.v}
             done == AnomalyCols(df_out, value_cols.v, ref_rows)
         IN  IF done.k = "raise" THEN done
             ELSE Ok(Table(done.v.index, DropNamed(done.v.cols, "_month")))

(***************************************************************************)
(* clim_preprocessing.basic_climate_preprocessing and the functions it     *)
(* calls.  A table whose date column became the index keeps the dates in   *)
(* `index`, names the index in `index_name`, and has no date column left.  *)
(***************************************************************************)
NaT == [k |-> "nat"]

\* a date written as text, "first/second/year"
TextDate(first, second, year) ==
    [k |-> "text", first |-> first, second |-> second, year |-> year]

\* pd.to_datetime(..., errors='coerce') of one cell: the preferred field is
\* the month when it can be one, else the other field, else NaT
to_datetime(c, dayfirst) ==
    IF c.k # "text" THEN c
    ELSE LET preferred == IF dayfirst THEN c.second ELSE c.first
             other == IF dayfirst THEN c.first ELSE c.second
         IN  IF preferred \in 1..12 /\ other \in 1..31 THEN DateCell(c.year, preferred)
             ELSE IF other \in 1..12 /\ preferred \in 1..31 THEN DateCell(c.year, other)
             ELSE NaT

DateLeq(a, b) == b = NaT \/ (a # NaT /\ a.v <= b.v)

\* df.sort_values(by=date_col) on parsed dates: ascending, NaT last
SortOrderNaTLast(dates) ==
    CHOOSE p \in [DOMAIN dates -> DOMAIN dates] :
        /\ \A i, j \in DOMAIN dates : i # j => p[i] # p[j]
        /\ \A i, j \in DOMAIN dates : i < j => DateLeq(dates[p[i]], dates[p[j]])

\* df.set_index(date_col) of a table whose rows are already in order p
set_index(df, date_col, dates, p) ==
    LET rest == DropNamed(df.cols, date_col)
    IN  [index |-> Permute(dates, p), index_name |-> date_col,
         cols |-> [c \in DOMAIN rest |->
                      [rest[c] EXCEPT !.vals = Permute(rest[c].vals, p)]]]

\* clim_preprocessing.parse_datetime_column
parse_datetime_column(df, date_col) ==
    IF date_col \notin ColumnNamesOf(df)
    THEN Raise("ValueError", "La colonne de date est introuvable dans les donnees")
    ELSE LET col == ColsNamed(df.cols, date_col)[1]
             converted == [i \in DOMAIN col.vals |-> to_datetime(col.vals[i], TRUE)]
         IN  IF col.kind # "datetime" /\ \A i \in DOMAIN converted : converted[i] = NaT
             THEN Raise("ValueError", "Erreur lors de la conversion de la colonne de date")
             ELSE Ok(CHOOSE t \in {set_index(df, date_col, converted, p) :
                                   p \in {SortOrderNaTLast(converted)}} : TRUE)

\* clim_preprocessing.aggregate_time_series with id_cols=None, agg_func="mean".
\* df[date_col] is a KeyError when the date is the index.  For "mois" the
\* group keys _year and _month are themselves among the numeric columns
\* handed to agg, and the aggregation (or the reset_index after it) raises.
aggregate_time_series(df, date_col, freq) ==
    IF date_col \notin ColumnNamesOf(df) THEN Raise("KeyError", date_col)
    ELSE IF freq \in {"Jour", "jour"}
    THEN LET col == ColsNamed(df.cols, date_col)[1]
             converted == [i \in DOMAIN col.vals |-> to_datetime(col.vals[i], FALSE)]
             p == SortOrderNaTLast(converted)
         IN  Ok(Table(Permute(df.index, p),
                      [c \in DOMAIN df.cols |->
                          IF df.cols[c].name = date_col
                          THEN Col(date_col, "datetime", Permute(converted, p))
                          ELSE [df.cols[c] EXCEPT !.vals = Permute(df.cols[c].vals, p)]]))
    ELSE IF freq \in {"Mois", "mois"}
    THEN Raise("Exception", "_year")
    ELSE Raise("ValueError", "Frequence d'agregation non supportee")

CellMul(a, b) == Cell(a.n * b.n, a.d * b.d)

\* the rows of a column holding a value
PresentRows(vals) == {i \in DOMAIN vals : vals[i] # NaN}

\* sum over S of (x - m) squared
RECURSIVE SquaresAt(_, _, _)
SquaresAt(vals, m, S) ==
    IF S = {} THEN Cell(0, 1)
    ELSE LET j == CHOOSE x \in S : TRUE
             dev == CellSub(vals[j], m)
         IN  CellAdd(CellMul(dev, dev), SquaresAt(vals, m, S \ {j}))

\* the z-score threshold (l.315)
ZThreshold == 3

\* l.327-340, one column: None when std_val == 0, else the number of rows
\* with |x - mean| / std > threshold (std with ddof=1: NaN below two values,
\* and then no row is an outlier)
ColumnOutliers(vals) ==
    LET P == PresentRows(vals)
    IN  IF Cardinality(P) < 2 THEN Num(0)
        ELSE LET m == MeanAt(vals, P)
                 squares == SquaresAt(vals, m, P)
                 variance == Cell(squares.n, squares.d * (Cardinality(P) - 1))
             IN  IF squares.n = 0 THEN None
                 ELSE Num(Cardinality(
                        {i \in P :
                            LET dev == CellSub(vals[i], m)
                            IN  CellLess(CellMul(Cell(ZThreshold * ZThreshold, 1), variance),
                                         CellMul(dev, dev))}))

\* round(100.0 * nb / n, 2), in hundredths
PctOutliers(nb, n) == IF n > 0 THEN (2 * 10000 * nb + n) \div (2 * n) ELSE 0

\* clim_preprocessing.detect_zscore_anomalies: the summary, a list of
\* (column, nb_outliers, pct_outliers); a column named twice makes
\* `std_val == 0` a comparison on a frame, which raises
RECURSIVE ZScoreSummary(_, _)
ZScoreSummary(df, value_cols) ==
    IF value_cols = <<>> THEN Ok(<<>>)
    ELSE LET col == Head(value_cols)
             named == ColsNamed(df.cols, col)
             rest == ZScoreSummary(df, Tail(value_cols))
         IN  IF named = <<>> THEN rest
             ELSE IF Len(named) > 1 THEN Raise("ValueError", "The truth value is ambiguous")
             ELSE IF rest.k = "raise" THEN rest
             ELSE LET nb == ColumnOutliers(named[1].vals)
                  IN  IF nb = None THEN rest
                      ELSE Ok(<<[col |-> col, nb_outliers |-> nb.v,
                                 pct_outliers |-> PctOutliers(nb.v, Len(named[1].vals))]>>
                              \o rest.v)

detect_zscore_anomalies(df, value_cols) ==
    ZScoreSummary(df, IF value_cols = None THEN NumberColumns(df.cols) ELSE value_cols.v)

\* the first and last date of a date index
IndexRange(index) ==
    LET known == {i \in DOMAIN index : index[i] # NaT}
    IN  [debut |-> index[CHOOSE i \in known : \A j \in known : index[i].v <= index[j].v],
         fin |-> index[CHOOSE i \in known : \A j \in known : index[j].v <= index[i].v]]

\* a str that is neither None nor empty
TruthyStr(x) == x # None /\ x.v # ""

\* a list that is neither None nor empty
TruthyList(x) == x # None /\ x.v # <<>>

\* a Python bool, where None is possible too
Bool(v) == [k |-> "bool", v |-> v]

\* l.501-504: the state basic_climate_preprocessing starts from; an info
\* field that is None is a key not written
PrepStart(df, date_col) ==
    [df |-> df, date_col |-> date_col, errors |-> <<>>,
     info_date_col |-> None, date_range |-> None, freq |-> None, rolling |-> None,
     rolling_cols |-> None, anomaly_summary |-> None, anomaly_columns |-> None]

\* l.506-518, 1) the date
DateStep(s) ==
    IF ~(TruthyStr(s.date_col) /\ s.date_col.v # "(aucune)") THEN s
    ELSE LET parsed == parse_datetime_column(s.df, s.date_col.v)
         IN  IF parsed.k = "ok"
             THEN [s EXCEPT !.df = parsed.v, !.info_date_col = s.date_col,
                            !.date_range = IndexRange(parsed.v.index)]
             ELSE [s EXCEPT !.date_col = None,
                            !.errors = Append(@, "Erreur lors du traitement des dates")]

\* l.520-527, 2) the aggregation
AggregateStep(s, freq) ==
    IF ~(freq # "Aucune" /\ TruthyStr(s.date_col)) THEN s
    ELSE LET aggregated == aggregate_time_series(s.df, s.date_col.v, freq)
         IN  IF aggregated.k = "ok"
             THEN [s EXCEPT !.df = aggregated.v, !.freq = Str(freq)]
             ELSE [s EXCEPT !.errors = Append(@, "Erreur lors de l'agregation temporelle")]

\* l.529-537, 3) the rolling means
RollingStep(s, add_rolling, rolling_cols) ==
    IF ~(add_rolling /\ TruthyStr(s.date_col) /\ TruthyList(rolling_cols)) THEN s
    ELSE LET rolled == add_rolling_features(s.df, s.date_col.v, rolling_cols, None)
         IN  IF rolled.k = "ok"
             THEN [s EXCEPT !.df = rolled.v, !.rolling = Bool(TRUE),
                            !.rolling_cols = rolling_cols]
             ELSE [s EXCEPT !.errors =
                              Append(@, "Erreur lors du calcul des moyennes mobiles")]

\* l.539-551, 4) the anomalies
AnomalyStep(s, detect_anomalies, anomaly_cols) ==
    IF ~detect_anomalies THEN s
    ELSE LET numeric == FilterSeq(NumberColumns(s.df.cols),
                                  {c \in ColumnNamesOf(s.df) :
                                      s.date_col = None \/ c # s.date_col.v})
             summary == detect_zscore_anomalies(
                            s.df, IF TruthyList(anomaly_cols) THEN anomaly_cols
                                  ELSE List(numeric))
         IN  IF summary.k = "ok"
             THEN [s EXCEPT !.anomaly_summary = List(summary.v),
                            !.anomaly_columns = anomaly_cols]
             ELSE [s EXCEPT !.errors =
                              Append(@, "Erreur lors de la detection d'anomalies")]

\* l.553-556: the table, the info and the st.error messages shown
PrepResult(s) ==
    [k |-> "ok", v |-> s.df, errors |-> s.errors,
     info |-> [date_col |-> s.info_date_col, date_range |-> s.date_range,
               freq |-> s.freq, rolling |-> s.rolling, rolling_cols |-> s.rolling_cols,
               anomaly_summary |-> s.anomaly_summary,
               anomaly_columns |-> s.anomaly_columns,
               shape |-> <<Len(s.df.index), Len(s.df.cols)>>,
               columns |-> [c \in DOMAIN s.df.cols |-> s.df.cols[c].name]]]

\* clim_preprocessing.basic_climate_preprocessing with id_cols=None, the four
\* steps one after the other; date_col is a Str or None, rolling_cols and
\* anomaly_cols a List or None
basic_climate_preprocessing(df, date_col, freq, add_rolling, rolling_cols, detect_anomalies, anomaly_cols) ==
    CHOOSE out \in
        {PrepResult(s4) :
            s4 \in {AnomalyStep(s3, detect_anomalies, anomaly_cols) :
                s3 \in {RollingStep(s2, add_rolling, rolling_cols) :
                    s2 \in {AggregateStep(s1, freq) :
                        s1 \in {DateStep(s0) : s0 \in {PrepStart(df, date_col)}}}}}} : TRUE

(***************************************************************************)
(* SpecFE: the feature-engineering operations, each applied to a table and *)
(* the result handed to the next.                                          *)
(***************************************************************************)
\* the operations applied in a row
MaxCalls == 2

Dates == <<DateCell(2000, 1), DateCell(2000, 2), DateCell(2001, 1)>>

DatesUnsorted == <<DateCell(2001, 1), DateCell(2000, 1), DateCell(2000, 2)>>

InputTables ==
    { Table(<<0, 1, 2>>,
            << Col("date", "datetime", Dates),
               Col("t", "number", <<Cell(6, 1), NaN, Cell(12, 1)>>) >>),
      Table(<<0, 1, 2>>,
            << Col("date", "datetime", DatesUnsorted),
               Col("t", "number", <<Cell(0, 1), Cell(6, 1), Cell(7, 1)>>),
               Col("p", "number", <<Cell(12, 1), Cell(0, 1), NaN>>) >>),
      Table(<<0, 1, 2>>,
            << Col("date", "datetime", Dates),
               Col("t", "number", <<Cell(1, 1), Cell(2, 1), Cell(4, 1)>>),
               Col("_month", "number", <<Cell(9, 1), Cell(9, 1), Cell(9, 1)>>) >>),
      Table(<<0, 1, 2>>,
            << Col("t", "number", <<Cell(1, 1), Cell(2, 1), Cell(4, 1)>>) >>) }

ValueCols == {List(<<"t">>), List(<<"t", "p">>), List(<<"x">>)}

WindowLists == {List(<<1>>), List(<<2>>), List(<<2, 3>>), List(<<2, 2>>)}

Thresholds == {[c \in {"t"} |-> 6], [c \in {"t", "p"} |-> 0]}

ReferencePeriods ==
    {[start |-> DateCell(2000, 1), end |-> DateCell(2000, 2)],
     [start |-> DateCell(2000, 1), end |-> DateCell(2000, 1)],
     [start |-> DateCell(1990, 1), end |-> DateCell(1990, 12)]}

NoCall == [op |-> "none", n |-> 0]

FEInit ==
    /\ table \in InputTables
    /\ fe_call = NoCall
    /\ fe_out = None

notFE == <<runVars, sesVars, detVars, prepVars, modVars>>

\* the call made: the operation, its value columns and windows, and in params
\* the thresholds or the reference period of the operations that take one
Called(op, value_cols, windows, params) ==
    [op |-> op, n |-> fe_call.n + 1, value_cols |-> value_cols, windows |-> windows,
     params |-> params]

AddRolling ==
    /\ fe_out = None /\ fe_call.n < MaxCalls
    /\ \E value_cols \in ValueCols \cup {None}, windows \in WindowLists \cup {None} :
          /\ fe_call' = Called("rolling", value_cols, windows, None)
          /\ fe_out' = add_rolling_features(table, "date", value_cols, windows)
    /\ UNCHANGED <<table, notFE>>

AddCumulative ==
    /\ fe_out = None /\ fe_call.n < MaxCalls
    /\ \E value_cols \in ValueCols, windows \in WindowLists :
          /\ fe_call' = Called("cumulative", value_cols, windows, None)
          /\ fe_out' = add_cumulative_features(table, "date", value_cols, windows)
    /\ UNCHANGED <<table, notFE>>

AddThreshold ==
    /\ fe_out = None /\ fe_call.n < MaxCalls
    /\ \E value_cols \in ValueCols, windows \in WindowLists, thresholds \in Thresholds :
          /\ fe_call' = Called("threshold", value_cols, windows, thresholds)
          /\ fe_out' = add_threshold_exceedance_features(table, "date", value_cols,
                                                         thresholds, windows)
    /\ UNCHANGED <<table, notFE>>

AddAnomaly ==
    /\ fe_out = None /\ fe_call.n < MaxCalls
    /\ \E value_cols \in ValueCols, ref \in ReferencePeriods :
          /\ fe_call' = Called("anomaly", value_cols, None, ref)
          /\ fe_out' = add_reference_anomaly_features(table, "date", value_cols,
                                                      ref.start, ref.end)
    /\ UNCHANGED <<table, notFE>>

AddExtreme ==
    /\ fe_out = None /\ fe_call.n < MaxCalls
    /\ \E value_cols \in ValueCols, windows \in WindowLists :
          /\ fe_call' = Called("extreme", value_cols, windows, None)
          /\ fe_out' = add_extreme_features(table, "date", value_cols, windows)
    /\ UNCHANGED <<table, notFE>>

\* clim_app, l.641-671: the table returned is the next operation's input
\* tables whose date column is text still to be parsed
TextDateTables ==
    { Table(<<0, 1, 2>>,
            << Col("date", "object",
                   <<TextDate(15, 2, 2000), TextDate(1, 1, 2000), TextDate(3, 13, 2000)>>),
               Col("t", "number", <<Cell(6, 1), Cell(0, 1), Cell(3, 1)>>) >>),
      Table(<<0, 1, 2>>,
            << Col("date", "object",
                   <<TextDate(1, 2, 2000), TextDate(0, 0, 2000), TextDate(1, 1, 2000)>>),
               Col("t", "number", <<Cell(6, 1), Cell(0, 1), NaN>>),
               Col("p", "number", <<Cell(1, 1), Cell(1, 1), Cell(1, 1)>>) >>),
      Table(<<0, 1, 2>>,
            << Col("date", "object",
                   <<TextDate(0, 0, 2000), TextDate(40, 40, 2000), TextDate(0, 13, 2000)>>),
               Col("t", "number", <<Cell(6, 1), Cell(0, 1), Cell(3, 1)>>) >>) }

DateColChoices == {None, Str("(aucune)"), Str("date"), Str("jour")}

Frequencies == {"Aucune", "Jour", "Mois"}

RollingColChoices == {None, List(<<>>), List(<<"t">>), List(<<"t", "p">>)}

AnomalyColChoices == {None, List(<<"t">>)}

\* clim_app l.628-639: basic_climate_preprocessing applied to a loaded table
BasicPreprocessing ==
    /\ fe_out = None /\ fe_call = NoCall
    /\ \E df \in {table} \cup TextDateTables, date_col \in DateColChoices,
          freq \in Frequencies, add_rolling \in BOOLEAN,
          rolling_cols \in RollingColChoices, detect_anomalies \in BOOLEAN,
          anomaly_cols \in AnomalyColChoices :
          /\ fe_call' = Called("basic", rolling_cols, None,
                               [df |-> df, date_col |-> date_col, freq |-> freq,
                                add_rolling |-> add_rolling,
                                detect_anomalies |-> detect_anomalies,
                                anomaly_cols |-> anomaly_cols])
          /\ fe_out' = basic_climate_preprocessing(df, date_col, freq, add_rolling,
                                                   rolling_cols, detect_anomalies,
                                                   anomaly_cols)
    /\ UNCHANGED <<table, notFE>>

\* the table an add_*_features call returned is the next call's input
Feed ==
    /\ fe_out # None /\ fe_out.k = "ok" /\ fe_call.op # "basic"
    /\ fe_call.n < MaxCalls
    /\ table' = fe_out.v
    /\ fe_out' = None
    /\ UNCHANGED <<fe_call, notFE>>

(***************************************************************************)
(* Properties of compare_models (Spec).                                    *)
(***************************************************************************)
CatalogNames(t, fast_mode) ==
    [i \in DOMAIN get_available_models(t, fast_mode) |->
        get_available_models(t, fast_mode)[i].name]

\* the names compare_models is to train, in catalog order
ExpectedNames ==
    IF args.selected_models \in {None, List(<<>>)}
    THEN CatalogNames(task, args.fast_mode)
    ELSE FilterSeq(CatalogNames(task, args.fast_mode), Range(args.selected_models.v))

\* C1: a run over n resolved candidates returns exactly n results, one per
\* candidate and in catalog order; an exception raised while a candidate is
\* fitted or evaluated never leaves compare_models and never keeps a later
\* candidate from being trained.
C1_OneResultPerCandidate ==
    /\ pc \in {"train", "returned"} =>
          /\ Len(results) <= Len(ExpectedNames)
          /\ \A i \in DOMAIN results : results[i].model_name = ExpectedNames[i]
    /\ pc = "returned" => Len(results) = Len(ExpectedNames)
    /\ pc = "raised" => results = <<>> /\ available_models = <<>>

\* a run of two candidates has returned, the first having failed
C1_FailureThenSuccess ==
    /\ pc = "returned"
    /\ Len(results) = 2
    /\ ~results[1].success
    /\ results[2].success

\* C2: a failed result carries a non-empty error message and null pipeline,
\* scores, metric name and cross-validation score; a successful result
\* carries a non-null pipeline and test score.
C2_FailedResultsExplainThemselves ==
    \A i \in DOMAIN results :
        LET r == results[i]
        IN  IF r.success
            THEN r.pipeline # None /\ r.test_score # None
            ELSE /\ "error" \in DOMAIN r
                 /\ r.error # ""
                 /\ r.pipeline = None
                 /\ r.test_score = None
                 /\ r.train_score = None
                 /\ r.f1_score = None
                 /\ r.rmse = None
                 /\ r.cv_scores = None
                 /\ r.metric_name = None

\* the hard violations of the data a call was made with
HardViolations ==
    (IF args.df.n_rows = 0 THEN {ErrXEmpty} ELSE {})
    \cup (IF args.df.cols = <<>> THEN {ErrNoFeatures} ELSE {})
    \cup (IF args.df.y.n_total = 0 THEN {ErrYEmpty} ELSE {})
    \cup (IF args.df.n_rows # args.df.y.n_total THEN {ErrMismatch} ELSE {})

\* C4: once the data are validated, every hard violation that is present
\* has been reported, and when there is one the run is stopped with no
\* candidate resolved and no result; with none (warnings or not) the run is
\* not stopped.
C4_ValidationGatesTraining ==
    /\ pc \notin {"idle", "validate"} =>
          /\ Range(shown.errors) = HardViolations
          /\ Len(shown.errors) = Cardinality(HardViolations)
          /\ IF HardViolations # {}
             THEN /\ pc = "stopped"
                  /\ available_models = <<>>
                  /\ results = <<>>
                  /\ split = None
                  /\ preprocessor = None
             ELSE pc # "stopped"
    /\ pc \in {"train", "returned"} => HardViolations = {}

\* a run is stopped with three violations reported at once
C4_StoppedWithAllViolations ==
    /\ pc = "stopped"
    /\ Len(shown.errors) = 3
    /\ results = <<>>

\* C5: the split of a classification run attempts stratification first,
\* whatever the flags, and falls back to a plain split when it raises; a
\* regression run splits plainly.
C5_ClassificationStratifiesFirst ==
    split # None =>
        IF task = "classification"
        THEN split.attempted_stratify /\ (split.used_stratify <=> ~args.df.rare_class)
        ELSE ~split.attempted_stratify /\ ~split.used_stratify

(***************************************************************************)
(* Properties of detect_task_type (SpecDetect).                            *)
(***************************************************************************)
\* C7: detect_task_type answers "classification" exactly when the target
\* has a non-numeric dtype, or has at most 20 distinct values that are fewer
\* than a tenth of its length; otherwise "regression"; the same target gets
\* the same answer on every call.
C7_DetectRule ==
    /\ \A i \in DOMAIN detected :
          detected[i].k = "ok" =>
             /\ detected[i].v \in {"classification", "regression"}
             /\ detected[i].v = "classification" <=>
                   \/ target.dtype \in {"object", "category"}
                   \/ /\ target.n_unique <= 20
                      /\ 10 * target.n_unique < target.n_total
    /\ \A i, j \in DOMAIN detected : detected[i] = detected[j]

\* a numeric target of more than 20 distinct values, fewer than a tenth of
\* its length, has been detected twice
C7_ManyValuesLowRatio ==
    /\ Len(detected) = 2
    /\ target.dtype = "int64"
    /\ target.n_unique > 20
    /\ 10 * target.n_unique < target.n_total
    /\ detected[1] = Ok("regression")

C9_ColumnsPartitioned ==
    (plan # None /\ plan.k = "ok") =>
        \A i \in DOMAIN features.cols :
            LET c == features.cols[i]
                inNum == c.name \in GroupColumns(plan.v, "num")
                inCat == c.name \in GroupColumns(plan.v, "cat")
            IN  /\ ~(inNum /\ inCat)
                /\ (~inNum /\ ~inCat) =>
                      /\ c.dtype \in {"object", "category"}
                      /\ c.nunique > 100
                      /\ prep_flags.handle_high_cardinality

(***************************************************************************)
(* Properties of page_modeling (SpecSession).                              *)
(***************************************************************************)
FloatGe(a, b) == a.k = "num" /\ b.k = "num" /\ a.v >= b.v

\* C3: the best model shown after a comparison is a successful result whose
\* test score is the highest of the successful results, the first of them in
\* catalog order when several reach it; the refinement mode picks, on the
\* stored results, the result display_comparison_results picks.
C3_BestIsFirstMaximum ==
    /\ (page.handler = "compare" /\ page.best # None) =>
          LET successful == SelectSeq(session.clim_comparison_results.v, IsSuccess)
          IN  \E i \in DOMAIN successful :
                 /\ successful[i].model_name = page.best.v
                 /\ \A j \in DOMAIN successful :
                       FloatGe(successful[i].test_score, successful[j].test_score)
                 /\ \A j \in 1..(i - 1) :
                       FloatGt(successful[i].test_score, successful[j].test_score)
    /\ (page.handler = "refine" /\ page.best # None) =>
          page.best.v =
             display_comparison_results(session.clim_comparison_results.v).model_name

\* C6: refining a best result of the Random Forest family trains exactly one
\* new result, with the forest built from the slider values, and reports its
\* test-score difference with the best result.
C6_ForestRefinementTrainsOnce ==
    (page.handler = "refine" /\ page.tuned_model # None) =>
        /\ page.trained = 1
        /\ Len(page.tuned_results.v) = 1
        /\ LET r == page.tuned_results.v[1]
           IN  r.success =>
                  /\ r.pipeline.model = page.tuned_model
                  /\ page.delta =
                        FloatSub(r.test_score,
                                 RefinementBest(session.clim_comparison_results.v).test_score)

(***************************************************************************)
(* Properties of the feature-engineering operations (SpecFE).              *)
(***************************************************************************)
UniqueNames(t) ==
    \A i, j \in DOMAIN t.cols : i # j => t.cols[i].name # t.cols[j].name

RowOf(t, label) == CHOOSE r \in DOMAIN t.index : t.index[r] = label

\* column i of the input is a column of the output, with the same cell in
\* every row
KeepsColumn(input, output, i) ==
    \E j \in DOMAIN output.cols :
        /\ output.cols[j].name = input.cols[i].name
        /\ \A r \in DOMAIN input.index :
              output.cols[j].vals[RowOf(output, input.index[r])] = input.cols[i].vals[r]

\* C10: the table a feature-engineering operation returns holds every input
\* column, its values unchanged in every row, and its column names are
\* unique: no added column takes the name of an input column or of another
\* added column.
C10_FeaturesOnlyAdded ==
    (fe_out.k = "ok" /\ UniqueNames(table)) =>
        /\ \A i \in DOMAIN table.cols : KeepsColumn(table, fe_out.v, i)
        /\ UniqueNames(fe_out.v)

\* the 0-based rank of row r of t in ascending date order
DateRank(t, r) ==
    LET dates == ColsNamed(t.cols, "date")[1].vals
    IN  Cardinality({q \in DOMAIN dates : dates[q].v < dates[r].v})

\* the rows of t within the w rows ending at row r in date order
TrailingRows(t, r, w) ==
    {q \in DOMAIN t.index :
        DateRank(t, q) <= DateRank(t, r) /\ DateRank(t, q) > DateRank(t, r) - w}

\* the rows of S where the values are present
Present(vals, S) == {q \in S : vals[q].k = "val"}

\* the values 1..n as a column
Counting(n) == [i \in 1..n |-> Cell(i, 1)]

\* C11: after add_cumulative_features, for every requested column c of the
\* table and every window w, the result has a column c_cumul_<w>j whose value
\* on each row is the sum of c over the rows of date rank max(0, i-w+1)..i,
\* the row itself included (the values present are summed; the value is
\* missing only when none of the window is present); with w = 7 the row of
\* rank 39 holds the sum of ranks 33..39
C11_CumulativeIsTrailingSum ==
    /\ rolling(Counting(40), 7, "sum")[40] = SumAt(Counting(40), 34..40)
    /\ (fe_call.op = "cumulative" /\ fe_out.k = "ok") =>
          \A ci \in DOMAIN fe_call.value_cols.v, wi \in DOMAIN fe_call.windows.v :
             LET c == fe_call.value_cols.v[ci]
                 w == fe_call.windows.v[wi]
             IN  c \in ColumnNamesOf(table) =>
                   \E j \in DOMAIN fe_out.v.cols :
                      /\ fe_out.v.cols[j].name = c \o "_cumul_" \o ToString(w) \o "j"
                      /\ \A r \in DOMAIN table.index :
                            LET vals == ColsNamed(table.cols, c)[1].vals
                                S == Present(vals, TrailingRows(table, r, w))
                            IN  fe_out.v.cols[j].vals[RowOf(fe_out.v, table.index[r])]
                                  = IF S = {} THEN NaN ELSE SumAt(vals, S)

\* a window as long as the table, over rows given out of date order: the
\* last row in date order holds the total of the column
C11_RunningTotal ==
    /\ fe_call.op = "cumulative" /\ fe_out.k = "ok"
    /\ ColsNamed(table.cols, "date")[1].vals = DatesUnsorted
    /\ \E j \in DOMAIN fe_out.v.cols :
          /\ fe_out.v.cols[j].name = "t_cumul_3j"
          /\ fe_out.v.cols[j].vals = <<Cell(6, 1), Cell(13, 1), Cell(13, 1)>>

\* the values 31, 29, 31, 29, ... as a column of n rows
Alternating(n) == [i \in 1..n |-> IF i % 2 = 1 THEN Cell(31, 1) ELSE Cell(29, 1)]

\* C12: after add_threshold_exceedance_features, for every requested column
\* c of the table that has a threshold t and every window w, the column
\* c_days_above_<t>_<w>j holds on each row the number of rows, among the w
\* rows ending at it in date order, whose value is strictly greater than t
\* (a value equal to t is not counted); the count lies between 0 and
\* min(w, rank + 1); on 31, 29 alternating, t = 30 and w = 10 give 5 at row 9
C12_CountsStrictExceedances ==
    /\ rolling(Exceed(Alternating(10), 30), 10, "sum")[10] = Cell(5, 1)
    /\ (fe_call.op = "threshold" /\ fe_out.k = "ok") =>
          \A ci \in DOMAIN fe_call.value_cols.v, wi \in DOMAIN fe_call.windows.v :
             LET c == fe_call.value_cols.v[ci]
                 w == fe_call.windows.v[wi]
             IN  (c \in ColumnNamesOf(table) /\ c \in DOMAIN fe_call.params) =>
                   LET t == fe_call.params[c]
                       vals == ColsNamed(table.cols, c)[1].vals
                       added == ColsNamed(fe_out.v.cols, ThresholdName(c, t, w))
                   IN  /\ Len(added) = 1
                       /\ \A r \in DOMAIN table.index :
                             LET above == {q \in Present(vals, TrailingRows(table, r, w)) :
                                              vals[q].n > t * vals[q].d}
                                 count == Cardinality(above)
                                 rank == DateRank(table, r)
                             IN  /\ added[1].vals[RowOf(fe_out.v, table.index[r])]
                                       = Cell(count, 1)
                                 /\ count >= 0 /\ count <= w /\ count <= rank + 1

\* a value equal to the threshold and a missing value are not counted: on
\* 6, missing, 12 with threshold 6 the three-row counts are 0, 0, 1
C12_EqualNotCounted ==
    /\ fe_call.op = "threshold" /\ fe_out.k = "ok"
    /\ "t" \in DOMAIN fe_call.params /\ fe_call.params["t"] = 6
    /\ ColsNamed(table.cols, "t")[1].vals = <<Cell(6, 1), NaN, Cell(12, 1)>>
    /\ \E j \in DOMAIN fe_out.v.cols :
          /\ fe_out.v.cols[j].name = "t_days_above_6.0_3j"
          /\ fe_out.v.cols[j].vals = <<Cell(0, 1), Cell(0, 1), Cell(1, 1)>>

\* the rows of t dated within [start, end] in the calendar month of row r
ReferenceRows(t, r, period) ==
    LET dates == ColsNamed(t.cols, "date")[1].vals
    IN  {q \in DOMAIN dates :
            /\ period.start.v <= dates[q].v /\ dates[q].v <= period.end.v
            /\ MonthOf(dates[q]) = MonthOf(dates[r])}

\* C13: after add_reference_anomaly_features, for every requested column c
\* of the table, c_anomaly_vs_ref is on each row the row's value of c minus
\* the mean of c over the rows dated within [reference_start, reference_end],
\* bounds included, that fall in the row's calendar month; it is missing on
\* a row whose month has no row in the reference period and on a row whose
\* own value is missing
C13_AnomalyAgainstMonthlyReference ==
    (fe_call.op = "anomaly" /\ fe_out.k = "ok") =>
       \A ci \in DOMAIN fe_call.value_cols.v :
          LET c == fe_call.value_cols.v[ci]
          IN  c \in ColumnNamesOf(table) =>
                LET vals == ColsNamed(table.cols, c)[1].vals
                    added == ColsNamed(fe_out.v.cols, c \o "_anomaly_vs_ref")
                IN  /\ Len(added) = 1
                    /\ \A r \in DOMAIN table.index :
                          LET ref == ReferenceRows(table, r, fe_call.params)
                              S == Present(vals, ref)
                              cell == added[1].vals[RowOf(fe_out.v, table.index[r])]
                          IN  /\ (ref = {} \/ vals[r].k # "val") => cell = NaN
                              /\ (S # {} /\ vals[r].k = "val") =>
                                    cell = CellSub(vals[r], MeanAt(vals, S))

\* a reference period of one month: the row of another year in that month is
\* measured against it, the row of a month without reference is missing
C13_MonthWithoutReference ==
    /\ fe_call.op = "anomaly" /\ fe_out.k = "ok"
    /\ fe_call.params = [start |-> DateCell(2000, 1), end |-> DateCell(2000, 1)]
    /\ ColsNamed(table.cols, "date")[1].vals = Dates
    /\ ColsNamed(table.cols, "t")[1].vals = <<Cell(1, 1), Cell(2, 1), Cell(4, 1)>>
    /\ \E j \in DOMAIN fe_out.v.cols :
          /\ fe_out.v.cols[j].name = "t_anomaly_vs_ref"
          /\ fe_out.v.cols[j].vals = <<Cell(0, 1), NaN, Cell(3, 1)>>

\* C14: each of the five feature operations fails with MissingColumnError,
\* returning no table, whenever the date column is absent from the table or
\* a requested value column is absent from it
C14_MissingColumnRaises ==
    (fe_call.op # "none" /\ fe_out # None) =>
       LET requested == IF fe_call.value_cols = None THEN {}
                        ELSE Range(fe_call.value_cols.v)
       IN  ("date" \notin ColumnNamesOf(table)
            \/ requested \ ColumnNamesOf(table) # {}) =>
              (fe_out.k = "raise" /\ fe_out.exc = "MissingColumnError")

\* C15: cross-validation scores are computed only if the caller requested
\* cross-validation and the dataset is at most 5 MB and at most 10,000 rows;
\* otherwise every result of the run has cv_scores null
C15_CvOnlyOnSmallData ==
    LET small == args.df.size_mb <= 5 /\ args.df.n_rows <= 10000
    IN  /\ pc \in {"split", "build", "resolve", "train", "returned"} =>
              (use_cv <=> (args.use_cv /\ small))
        /\ \A i \in DOMAIN results :
              results[i].cv_scores # None => (args.use_cv /\ small)

\* cross-validation requested on 10,001 rows: the run returns trained
\* candidates, none with cross-validation scores
C15_LargeDatasetSkipsCv ==
    /\ pc = "returned" /\ args.use_cv
    /\ args.df.n_rows > 10000 /\ args.df.size_mb <= 5
    /\ \E i \in DOMAIN results : results[i].success
    /\ \A i \in DOMAIN results : results[i].cv_scores = None

\* C16: when cross-validation is in force and fit and predict succeed while
\* the cross-validation step raises, the candidate's result is still a
\* success, with test and train scores populated and cv_scores null
C16_CvFailureKeepsResult ==
    /\ (pc = "train" /\ Len(results) < Len(available_models) /\ use_cv) =>
          \A env \in RunEnvs(use_cv) :
             (env.fit = "ok" /\ env.cv = "raise") =>
                LET c == available_models[Len(results) + 1]
                    r == train_and_evaluate_model(c.name, c.model, preprocessor,
                                                  task, use_cv, env)
                IN  /\ r.k = "ok" /\ r.v.success
                    /\ r.v.test_score = env.test /\ r.v.test_score # None
                    /\ r.v.train_score = env.train /\ r.v.train_score # None
                    /\ r.v.cv_scores = None
    /\ \A i \in DOMAIN results :
          results[i].success =>
             (results[i].test_score # None /\ results[i].train_score # None)

\* a run with cross-validation in force holds a successful result without
\* cross-validation scores: its cross-validation step raised
C16_ScoresWithoutCv ==
    /\ pc \in {"train", "returned"} /\ use_cv
    /\ \E i \in DOMAIN results :
          /\ results[i].success /\ results[i].cv_scores = None
          /\ results[i].test_score # None /\ results[i].train_score # None

\* the call detected a classification
RunIsClassification ==
    /\ climate_df.has_target
    /\ detect_task_type(climate_df.y) = Ok("classification")

\* the call's stratified split raises
StratifiedSplitRaises ==
    train_test_split(climate_df.y, climate_df.min_class, TRUE).k = "raise"

\* an error of train_test_split left run_climate_modeling
SplitErrorReachedCaller ==
    /\ climate_run.out.k = "raise" /\ climate_run.out.exc = "ValueError"
    /\ climate_run.out.msg \in
           {"the resulting train set will be empty",
            "The least populated class in y has only 1 member",
            "should be greater or equal to the number of classes"}

\* used_stratify is True exactly when the task is classification and the
\* stratified split succeeded
UsedStratifyExact ==
    climate_run.out.k = "ok" =>
       (climate_run.out.v.used_stratify
          <=> (RunIsClassification /\ ~StratifiedSplitRaises))

CatalogPosition(name) ==
    CHOOSE i \in DOMAIN CatalogNames(task, args.fast_mode) :
        CatalogNames(task, args.fast_mode)[i] = name

\* C18: the candidates of a run are the catalog of (task, fast_mode)
\* restricted to the names in selected_models, or the whole catalog when no
\* selection is given; the names of the results are exactly that set, each
\* once, in catalog order whatever the order of the selection; a regression
\* with selected_models = ["Linear Regression"] has exactly one result
C18_ResultsAreSelectedCatalog ==
    LET catalog == Range(CatalogNames(task, args.fast_mode))
        wanted == IF args.selected_models \in {None, List(<<>>)} THEN catalog
                  ELSE catalog \cap Range(args.selected_models.v)
    IN  /\ pc \in {"train", "returned"} =>
              /\ {available_models[i].name : i \in DOMAIN available_models} = wanted
              /\ Len(available_models) = Cardinality(wanted)
        /\ pc = "returned" =>
              /\ {results[i].model_name : i \in DOMAIN results} = wanted
              /\ Len(results) = Cardinality(wanted)
              /\ \A i, j \in DOMAIN results :
                    i < j => CatalogPosition(results[i].model_name)
                               < CatalogPosition(results[j].model_name)
              /\ (task = "regression"
                    /\ args.selected_models = List(<<"Linear Regression">>)) =>
                    (Len(results) = 1 /\ results[1].model_name = "Linear Regression")

\* two names selected in the reverse of their catalog order: the results
\* come in catalog order
C18_SelectionOrderIgnored ==
    /\ pc = "returned" /\ Len(results) = 2
    /\ args.selected_models = List(<<results[2].model_name, results[1].model_name>>)

\* the estimator the catalog of the run holds under a name
CatalogModel(name) ==
    get_available_models(task, args.fast_mode)[CatalogPosition(name)].model

\* C19: when handle_imbalance is set and the task is classification, every
\* candidate whose estimator exposes class_weight has it set to "balanced"
\* before the first candidate is trained (and nothing else of it changed);
\* otherwise every candidate is configured as in the catalog
C19_BalancedBeforeFirstTraining ==
    pc \in {"train", "returned"} =>
       /\ \A i \in DOMAIN available_models :
             LET c == available_models[i]
                 original == CatalogModel(c.name)
             IN  IF args.handle_imbalance /\ task = "classification"
                    /\ "class_weight" \in DOMAIN original
                 THEN /\ c.model.class_weight = Str("balanced")
                      /\ c.model = [original EXCEPT !.class_weight = Str("balanced")]
                 ELSE c.model = original
       /\ \A i \in DOMAIN results :
             results[i].success => results[i].pipeline.model = available_models[i].model

\* a classification with handle_imbalance, no candidate trained yet: one
\* candidate is balanced, another has no class_weight and is as in the catalog
C19_BalancedAndUntouched ==
    /\ pc = "train" /\ results = <<>>
    /\ args.handle_imbalance /\ task = "classification"
    /\ \E i, j \in DOMAIN available_models :
          /\ "class_weight" \in DOMAIN available_models[i].model
          /\ available_models[i].model.class_weight = Str("balanced")
          /\ "class_weight" \notin DOMAIN available_models[j].model
          /\ available_models[j].model = CatalogModel(available_models[j].name)

\* C20: every successful result of a classification run has accuracy as
\* its metric (metric_name Accuracy), a weighted F1 and no RMSE; every
\* successful result of a regression run has R2 as its metric, an RMSE and
\* no F1; so exactly one of f1_score and rmse is non-null
C20_MetricsFollowTask ==
    pc \in {"train", "returned"} =>
       \A i \in DOMAIN results :
          results[i].success =>
             /\ results[i].test_score # None /\ results[i].train_score # None
             /\ (results[i].f1_score # None) # (results[i].rmse # None)
             /\ task = "classification" =>
                   /\ results[i].metric_name = Str("Accuracy")
                   /\ results[i].f1_score # None /\ results[i].rmse = None
             /\ task = "regression" =>
                   /\ results[i].metric_name = Str("R2")
                   /\ results[i].rmse # None /\ results[i].f1_score = None
             /\ task \in {"classification", "regression"}

\* a run left on auto and detected as a classification has returned a
\* successful result: it carries an F1 and no RMSE
C20_DetectedClassificationHasF1 ==
    /\ pc = "returned" /\ args.task = "auto" /\ task = "classification"
    /\ \E i \in DOMAIN results :
          /\ results[i].success /\ results[i].metric_name = Str("Accuracy")
          /\ results[i].f1_score # None /\ results[i].rmse = None

\* C21: every table transformation leaves the caller's table as it was and
\* returns a new table object, never the caller's own, on every path, the
\* early returns included
C21_NeverTheCallersTable ==
    (fe_call.op # "none" /\ fe_out.k = "ok") => "own" \notin DOMAIN fe_out

\* C22: once a candidate's result is in the result list of a run, no later
\* step of the run changes it: training the following candidates and
\* returning leave every field of it, the fitted state of the preprocessor
\* and the model of its pipeline included, as it was when it was appended
C22_ResultsNeverChange ==
    [][(pc = "train" /\ pc' \in {"train", "returned"}) =>
          /\ Len(results') >= Len(results)
          /\ \A i \in DOMAIN results : results'[i] = results[i]]_vars

\* a successful result is followed in the list by the result of a later
\* candidate, trained on the same preprocessor object
C22_LaterCandidateTrained ==
    /\ pc = "train" /\ Len(results) >= 2
    /\ results[1].success /\ results[2].success
    /\ results[1].pipeline.preprocessor = preprocessor
    /\ "fitted_on" \in DOMAIN preprocessor

\* C23: after add_rolling_features on a table that has the date column, for
\* every value column c and window w the column c_roll_<w> is, at the row of
\* rank i in date order, the mean of c over the rows of rank max(0, i-w+1)..i;
\* it is missing only when every value of the window is; with w = 1 it
\* equals c at every row, the rows where c is missing included
C23_RollingIsTrailingMean ==
    (fe_call.op = "rolling" /\ fe_out.k = "ok" /\ "date" \in ColumnNamesOf(table)) =>
       LET requested == IF fe_call.value_cols = None THEN NumberColumns(table.cols)
                        ELSE fe_call.value_cols.v
           windows == IF fe_call.windows = None THEN <<3, 7>> ELSE fe_call.windows.v
       IN  \A ci \in DOMAIN requested, wi \in DOMAIN windows :
              LET c == requested[ci]
                  w == windows[wi]
              IN  c \in ColumnNamesOf(table) =>
                    \E j \in DOMAIN fe_out.v.cols :
                       /\ fe_out.v.cols[j].name = c \o "_roll_" \o ToString(w)
                       /\ \A r \in DOMAIN table.index :
                             LET vals == ColsNamed(table.cols, c)[1].vals
                                 S == Present(vals, TrailingRows(table, r, w))
                                 cell == fe_out.v.cols[j].vals[RowOf(fe_out.v, table.index[r])]
                             IN  /\ cell = IF S = {} THEN NaN ELSE MeanAt(vals, S)
                                 /\ S # {} => cell # NaN
                                 /\ w = 1 => cell = vals[r]

\* window 1 on 6, missing, 12: the rolling column repeats the column, the
\* missing value included
C23_WindowOneRepeatsColumn ==
    /\ fe_call.op = "rolling" /\ fe_out.k = "ok"
    /\ ColsNamed(table.cols, "t")[1].vals = <<Cell(6, 1), NaN, Cell(12, 1)>>
    /\ \E j \in DOMAIN fe_out.v.cols :
          /\ fe_out.v.cols[j].name = "t_roll_1"
          /\ fe_out.v.cols[j].vals = <<Cell(6, 1), NaN, Cell(12, 1)>>

\* the stored comparison has a best result, and it is not a random forest
BestIsNotForest ==
    /\ session.clim_comparison_results # None
    /\ SelectSeq(session.clim_comparison_results.v, IsSuccess) # <<>>
    /\ RefinementBest(session.clim_comparison_results.v).model_name
          \notin {"Random Forest", "Random Forest (Tuned)"}

\* C24: when the best result of the stored comparison is not of the Random
\* Forest family, a run of the refinement mode trains nothing, leaves the
\* stored model, model info and comparison results as they were, and tells
\* the user that refinement is not supported yet for that family: on display
\* for the families without sliders, on pressing the button for a gradient
\* boosting
C24_UnsupportedFamilyIsTold ==
    [][(BestIsNotForest /\ page'.handler = "refine" /\ page'.runs = page.runs + 1) =>
          /\ session' = session
          /\ page'.trained = 0
          /\ page'.tuned_model = None /\ page'.tuned_results = None
          /\ RefinementBest(session.clim_comparison_results.v).model_name
                # "Gradient Boosting" => page'.message # None
          /\ ClickRefineBoosting => page'.message # None]_vars

\* the button pressed on a best result that is a gradient boosting: the
\* message is shown, nothing was trained
C24_BoostingToldOnClick ==
    /\ page.handler = "refine" /\ page.best = Str("Gradient Boosting")
    /\ page.message = Str("Implementation complete a venir pour Gradient Boosting")
    /\ page.trained = 0
    /\ session.clim_comparison_results # None

\* C25: after a comparison the ranking holds exactly the successful results,
\* each once, and no row scores higher than a row ranked above it; the failed
\* results are only in the failure record, each with its error message, and
\* the best model is one of the successful results; when no result is
\* successful there is no best model and no ranking.
RankedNames(ranking) == {ranking[i].model_name : i \in DOMAIN ranking}

C25_RankingHoldsTheSuccesses ==
    (page.handler = "compare" /\ page.results # None) =>
        LET rs == page.results.v
            succ == {i \in DOMAIN rs : rs[i].success}
            fail == {i \in DOMAIN rs : ~rs[i].success}
        IN  IF succ = {}
            THEN page.best = None /\ page.ranking = None
            ELSE /\ page.ranking # None
                 /\ Len(page.ranking.v) = Cardinality(succ)
                 /\ \A i \in succ : \E k \in DOMAIN page.ranking.v :
                        page.ranking.v[k] = ResultRow(rs[i])
                 /\ \A j, k \in DOMAIN page.ranking.v :
                        j < k => ~FloatGt(page.ranking.v[k].test_score,
                                          page.ranking.v[j].test_score)
                 /\ \A i \in fail : rs[i].model_name \notin RankedNames(page.ranking.v)
                 /\ page.best # None
                 /\ \E i \in succ : page.best = Str(rs[i].model_name)
                 /\ fail # {} =>
                        /\ page.failures # None
                        /\ Len(page.failures.v) = Cardinality(fail)
                        /\ \A i \in fail : \E k \in DOMAIN page.failures.v :
                               page.failures.v[k] = [model_name |-> rs[i].model_name,
                                                     error |-> rs[i].error]
                 /\ fail = {} => page.failures = None

\* a comparison whose first model failed and whose second succeeded: the
\* ranking is the second alone and the failure record the first alone
C25_FailureBesideRanking ==
    /\ page.handler = "compare" /\ page.results # None
    /\ Len(page.results.v) = 2
    /\ ~page.results.v[1].success /\ page.results.v[2].success
    /\ page.ranking = List(<<ResultRow(page.results.v[2])>>)
    /\ page.failures # None /\ Len(page.failures.v) = 1
    /\ page.best = Str(page.results.v[2].model_name)

\* C26: after basic_climate_preprocessing with add_rolling set, a date column
\* that parsed and a non-empty list of rolling columns, the returned table has
\* <col>_roll_3 and <col>_roll_7 for every requested column of the input; and
\* whenever the info says rolling, those columns are in the returned table.
RollingColumnsPresent ==
    \A i \in DOMAIN fe_call.value_cols.v :
        fe_call.value_cols.v[i] \in ColumnNamesOf(fe_call.params.df) =>
            {FeatureName("roll", fe_call.value_cols.v[i], 3),
             FeatureName("roll", fe_call.value_cols.v[i], 7)} \subseteq ColumnNamesOf(fe_out.v)

C26_RollingAddsItsColumns ==
    (fe_call.op = "basic" /\ fe_out # None) =>
        /\ (/\ fe_call.params.add_rolling
             /\ fe_out.info.date_col # None
             /\ TruthyList(fe_call.value_cols)) => RollingColumnsPresent
        /\ fe_out.info.rolling = Bool(TRUE) => RollingColumnsPresent

\* C27: a comparison run goes through validate, detect, size check, split,
\* build, resolve, train, return in that order, never back; no result exists
\* before validation has passed and the plan is built; the plan is the one
\* build_preprocessor gives on the training rows; each training step appends
\* exactly the result of the next candidate; a returned run has one result
\* per candidate; an exception leaves the run only before a candidate is
\* resolved; every started run ends, and a run that reached the training
\* loop returns.
StageRank(stage) ==
    CASE stage = "idle" -> 0
      [] stage = "validate" -> 1
      [] stage = "detect" -> 2
      [] stage = "size" -> 3
      [] stage = "split" -> 4
      [] stage = "build" -> 5
      [] stage = "resolve" -> 6
      [] stage = "train" -> 7
      [] OTHER -> 8

RunOver == pc \in {"returned", "stopped", "raised"}

C27_StagesInOrder ==
    [][(pc # "idle" /\ ~RunOver) =>
          \/ pc' = pc /\ pc = "train" /\ Len(results') = Len(results) + 1
                /\ results'[Len(results')].model_name
                      = available_models[Len(results) + 1].name
          \/ pc' # pc /\ StageRank(pc') = StageRank(pc) + 1 /\ pc' # "stopped"
                /\ pc' # "raised" /\ results' = results
          \/ pc' = "stopped" /\ pc = "validate"
          \/ pc' = "raised" /\ pc \in {"detect", "split", "build"}]_vars

C27_TrainedOnlyOnceReady ==
    /\ results # <<>> =>
          /\ pc \in {"train", "returned"}
          /\ shown.errors = <<>>
          /\ preprocessor # None /\ split # None
    /\ pc \in {"resolve", "train", "returned"} =>
          preprocessor.transformers
            = build_preprocessor(split.X_train, TRUE, TRUE).v.transformers
    /\ pc = "returned" =>
          /\ Len(results) = Len(available_models)
          /\ \A i \in DOMAIN results : results[i].model_name = available_models[i].name
    /\ pc \in {"raised", "stopped"} => results = <<>> /\ available_models = <<>>

C27_RunEndsInOrder ==
    /\ []C27_TrainedOnlyOnceReady
    /\ C27_StagesInOrder
    /\ (pc = "validate") ~> RunOver
    /\ (pc = "train") ~> (pc = "returned")

\* a run of two candidates has returned with a plan that keeps a text column
\* the plan of the whole table would have dropped
C27_PlanOfTrainingRows ==
    /\ pc = "returned"
    /\ Len(results) = 2
    /\ preprocessor.transformers
         # build_preprocessor(XOf(args.df), TRUE, TRUE).v.transformers

\* the claim as stated: once validation has passed the run always reaches
\* its end with one result per candidate
C27_AlwaysReturns ==
    /\ []C27_TrainedOnlyOnceReady
    /\ C27_StagesInOrder
    /\ (pc = "detect") ~> (pc = "returned")

\* C28: a refinement builds and retrains its model under the task of the
\* comparison run that produced the best result it refines.
C28_RefinesUnderComparisonTask ==
    (page.handler = "refine" /\ page.tuned_model # None) =>
        ((page.tuned_model.cls = "RandomForestClassifier")
            <=> (RefinementBest(session.clim_comparison_results.v).metric_name
                    = Str("Accuracy")))

\* C29: the comparison results kept in the session always hold a successful
\* result, and the refinement mode never has to pick its best from an empty
\* list of successes.
C29_StoredResultsHoldASuccess ==
    /\ session.clim_comparison_results # None =>
          \E i \in DOMAIN session.clim_comparison_results.v :
              session.clim_comparison_results.v[i].success
    /\ page.handler = "refine" => page.message # Str("ValueError")

\* the refinement mode has picked its best from stored results of which one
\* had failed
C29_RefinedBesideAFailure ==
    /\ page.handler = "refine" /\ page.best # None
    /\ session.clim_comparison_results # None
    /\ \E i \in DOMAIN session.clim_comparison_results.v :
          ~session.clim_comparison_results.v[i].success

\* C30: a run whose selection names no model of the catalog of its task
\* trains nothing and returns the empty list with the resolved task; nothing
\* is shown about the unknown names, and the only exception that can leave
\* such a run once its task is resolved is the split's, on a one-row table.
\* An empty selection is no selection: the whole catalog is trained.
UnknownSelection ==
    /\ args # None /\ task # "auto"
    /\ args.selected_models # None /\ args.selected_models.v # <<>>
    /\ \A i \in DOMAIN args.selected_models.v :
          args.selected_models.v[i] \notin Range(CatalogNames(task, args.fast_mode))

\* what validate_data_for_modeling alone shows for the call
ValidationShown ==
    LET v == validate_data_for_modeling(XOf(args.df), YOf(args.df), args.df.size_mb)
    IN  [errors |-> v.errors, warnings |-> v.warnings]

EmptySelectionTrainsCatalog ==
    (pc \in {"train", "returned"} /\ args.selected_models = List(<<>>)) =>
        /\ Len(available_models) = Len(CatalogNames(task, args.fast_mode))
        /\ \A i \in DOMAIN available_models :
              available_models[i].name = CatalogNames(task, args.fast_mode)[i]
        /\ pc = "returned" => Len(results) = Len(available_models)

UnknownSelectionTrainsNothing ==
    (pc \in {"train", "returned"} /\ UnknownSelection) =>
        /\ available_models = <<>> /\ results = <<>>
        /\ ~ENABLED Train
        /\ raised = None
        /\ shown = ValidationShown
        /\ task \in {"classification", "regression"}

C30_UnknownSelectionIsEmptyRun ==
    /\ UnknownSelectionTrainsNothing
    /\ EmptySelectionTrainsCatalog
    /\ (pc = "raised" /\ UnknownSelection) =>
          /\ args.df.n_rows = 1
          /\ raised = Raise("ValueError", "the resulting train set will be empty")
          /\ results = <<>>

\* a run selecting only a name its catalog does not have has returned, empty
C30_ReturnedEmpty ==
    /\ pc = "returned" /\ UnknownSelection
    /\ args.selected_models = List(<<"Random Forest (Tuned)">>)
    /\ results = <<>> /\ raised = None

\* the claim as stated: such a run never raises
C30_UnknownSelectionNeverRaises ==
    /\ UnknownSelectionTrainsNothing
    /\ EmptySelectionTrainsCatalog
    /\ UnknownSelection => pc # "raised"

SesIdle == SesInit

FEIdle == table = None /\ fe_call = NoCall /\ fe_out = None

RunIdle == RunInit

DetIdle == target = None /\ detected = <<>>

PrepIdle == features = None /\ prep_flags = None /\ plan = None

ModIdle == climate_df = None /\ climate_run = None

(***************************************************************************)
(* The specifications.                                                     *)
(***************************************************************************)
Init == RunInit /\ SesIdle /\ DetIdle /\ PrepIdle /\ FEIdle /\ ModIdle

Next == Call \/ Validate \/ DetectTask \/ SizeCheck \/ Split \/ Build
           \/ Resolve \/ Train \/ Return \/ Forget

Spec == Init /\ [][Next]_vars

\* compare_models is one sequential function: a started run goes on to its
\* next statement
RunStep == Validate \/ DetectTask \/ SizeCheck \/ Split \/ Build
              \/ Resolve \/ Train \/ Return

SpecRun == Init /\ [][Next]_vars /\ WF_vars(RunStep)

InitDetect == DetInit /\ RunIdle /\ SesIdle /\ PrepIdle /\ FEIdle /\ ModIdle

NextDetect == DetectCall

SpecDetect == InitDetect /\ [][NextDetect]_vars

InitPrep == PrepInit /\ RunIdle /\ SesIdle /\ DetIdle /\ FEIdle /\ ModIdle

NextPrep == BuildCall

SpecPrep == InitPrep /\ [][NextPrep]_vars

InitSession == SesInit /\ RunIdle /\ DetIdle /\ PrepIdle /\ FEIdle /\ ModIdle

NextSession ==
    \/ ClickTrainSingle
    \/ ClickCompare
    \/ ClickCompareNothing
    \/ ViewRefine
    \/ ClickRefineForest
    \/ ClickRefineBoosting

SpecSession == InitSession /\ [][NextSession]_vars

InitFE == FEInit /\ RunIdle /\ SesIdle /\ DetIdle /\ PrepIdle /\ ModIdle

NextFE ==
    \/ AddRolling
    \/ AddCumulative
    \/ AddThreshold
    \/ AddAnomaly
    \/ AddExtreme
    \/ BasicPreprocessing
    \/ Feed

SpecFE == InitFE /\ [][NextFE]_vars

InitModeling == ModInit /\ RunIdle /\ SesIdle /\ DetIdle /\ PrepIdle /\ FEIdle

NextModeling == RunClimateModeling

SpecModeling == InitModeling /\ [][NextModeling]_vars

====
